---- MODULE Spec2Model ----
(***************************************************************************)
(* BB-Browser: the BrowserManager registry of named BrowserInstances, the  *)
(* SessionManager file store, and the site workflows' login polling.       *)
(*                                                                         *)
(* Granularity.  The program is asynchronous, single-threaded JavaScript:  *)
(* a call runs without interruption up to an await on engine I/O           *)
(* (chromium.launch, browser.newContext, browser.close) or on a timer, and *)
(* its continuation runs without interruption when that I/O settles.  Each *)
(* action below is one such uninterrupted run.  Engine I/O may succeed or  *)
(* throw; both outcomes are separate actions.                              *)
(***************************************************************************)
EXTENDS Integers, Sequences, FiniteSets, TLC

\* ------------------------------------------------------------------ bounds
MaxCalls == 3      \* BrowserManager calls issued in one behaviour
MaxPages == 2      \* pages opened in one behaviour

\* -------------------------------------------------------------- constants
\* Names are sequences of one-character strings, so that the SessionManager's
\* character-wise sanitisation can be computed on them.
Names == {<<"a">>, <<"a", ".", "b">>}
NoName == <<>>
Calls == 1..MaxCalls
Insts == 1..MaxCalls

VARIABLES
  instances,   \* BrowserManager.instances: name -> instance id, 0 = no entry
  iname,       \* BrowserInstance.name
  status,      \* BrowserInstance._status
  browser,     \* BrowserInstance.browser is non-null
  context,     \* BrowserInstance.context is non-null
  pages,       \* BrowserInstance.pages, in insertion order (page ids)
  engine,      \* the engine process an instance started: none / up / down
  nextInst,    \* next instance object to be constructed
  pageCtr,     \* pages opened so far
  calls,       \* the BrowserManager calls: issued, in flight or finished
  nCalls,      \* calls issued so far
  cookies,     \* the cookies of an instance's browser context
  purl,        \* page.url() of each page
  lstore,      \* window.localStorage of an instance's context, per origin
  sstore,      \* window.sessionStorage of a page, per origin
  files,       \* the sessions directory: file name -> parsed content
  last,        \* the latest session operation and what it returned
  now,         \* Date.now(), in ms since the start of the behaviour
  configs,     \* WorkflowManager.configs: site id -> SiteConfig
  registry,    \* WorkflowManager.registry: the type tags, in insertion order
  wfs,         \* WorkflowManager.instances: site id -> cached workflow
  login,       \* the WorkflowManager call in progress (init or login)
  events       \* what an observer's event listeners received in the latest step

mgrVars == <<instances, iname, status, browser, context, pages, engine,
             nextInst, pageCtr, calls, nCalls>>

webVars == <<cookies, purl, lstore, sstore>>

storeVars == <<files, last>>

wfVars == <<now, configs, registry, wfs, login>>

restVars == <<webVars, storeVars, wfVars>>

vars == <<mgrVars, restVars, events>>

\* EventEmitter.emit calls the listeners attached for the event and does
\* nothing without one.  events.listening: an observer has attached listeners
\* for the page:* events of the manager and for the page:* and session:loaded
\* events of every instance; events.watching: an observer has attached
\* listeners for the manager's browser:created and browser:closed, as
\* test.ts does; events.emitted: what these listeners received in the latest
\* step, in the order of the emits; events.life: the latest browser:* event
\* the watching observer received for each name.
NoEvents == <<>>
NoLife == [n \in Names |-> "none"]

\* Nobody listens / an observer listens and has received nothing yet.
Unheard ==
  [listening |-> FALSE, watching |-> FALSE, emitted |-> NoEvents,
   life |-> NoLife]
Listening == [Unheard EXCEPT !.listening = TRUE]
Watching == [Unheard EXCEPT !.watching = TRUE]

\* A step that emits nothing.
Silent == [events EXCEPT !.emitted = NoEvents]

\* A step that emits the events es.
Heard(es) == [events EXCEPT !.emitted = IF events.listening THEN es
                                        ELSE NoEvents]

\* this.emit('browser:created' | 'browser:closed', { name }) of the manager.
Life(t, n) == [from |-> 0, type |-> t, browser |-> n]

\* The latest event of es about name n, or what was known before.
LatestLife(es, n, before) ==
  IF \E k \in DOMAIN es : es[k].browser = n
    THEN es[CHOOSE k \in DOMAIN es :
              /\ es[k].browser = n
              /\ \A j \in DOMAIN es : es[j].browser = n => j <= k].type
    ELSE before

\* A step in which the manager emits the browser:* events es.
HeardLife(es) ==
  IF events.watching
    THEN [events EXCEPT !.emitted = es,
                        !.life = [n \in Names |-> LatestLife(es, n, @[n])]]
    ELSE Silent

\* The sequences that list every element of S once.
Orderings(S) ==
  {s \in [1..Cardinality(S) -> S] : \A x \in S : \E k \in DOMAIN s : s[k] = x}

\* A call that has not been issued yet.
IdleCall ==
  [op |-> "none", arg |-> NoName, pc |-> "idle", inst |-> 0, pend |-> {},
   res |-> "pending", targets |-> {}, threw |-> {}, overl |-> {}]

\* new BrowserManager(): an empty registry; BrowserInstance field defaults.
MgrInit ==
  /\ instances = [n \in Names |-> 0]
  /\ iname = [i \in Insts |-> NoName]
  /\ status = [i \in Insts |-> "closed"]
  /\ browser = [i \in Insts |-> FALSE]
  /\ context = [i \in Insts |-> FALSE]
  /\ pages = [i \in Insts |-> <<>>]
  /\ engine = [i \in Insts |-> "none"]
  /\ nextInst = 1
  /\ pageCtr = 0
  /\ calls = [c \in Calls |-> IdleCall]
  /\ nCalls = 0

\* Call slot c is the next one to be issued.
Issue(c) ==
  /\ c = nCalls + 1
  /\ nCalls' = c

\* BrowserManager.has
has(n) == instances[n] # 0

\* The create calls for name n that are awaiting their launch.
CreatesInFlight(n) ==
  {d \in Calls : calls[d].op = "create" /\ calls[d].arg = n
                 /\ calls[d].pc \in {"launch", "context"}}

\* CreateStart without the duplicate check of create.
CreateStartNoCheck(c, n) ==
  /\ Issue(c)
  /\ nextInst \in Insts
  /\ iname' = [iname EXCEPT ![nextInst] = n]
  /\ status' = [status EXCEPT ![nextInst] = "launching"]
  /\ nextInst' = nextInst + 1
  /\ calls' = [calls EXCEPT ![c] =
       [IdleCall EXCEPT !.op = "create", !.arg = n, !.pc = "launch",
                        !.inst = nextInst, !.overl = CreatesInFlight(n)]]
  /\ UNCHANGED <<instances, browser, context, pages, engine, pageCtr>>
  /\ UNCHANGED restVars
  /\ events' = Silent

\* BrowserManager.create up to its first suspension: the duplicate check, the
\* construction of the instance, and launch() up to `await chromium.launch`.
create(c, n) ==
  /\ Issue(c)
  /\ IF has(n)
       THEN /\ calls' = [calls EXCEPT ![c] =
                 [IdleCall EXCEPT !.op = "create", !.arg = n, !.pc = "done",
                                  !.res = "duplicate"]]
            /\ UNCHANGED <<iname, status, nextInst>>
       ELSE /\ nextInst \in Insts
            /\ iname' = [iname EXCEPT ![nextInst] = n]
            /\ status' = [status EXCEPT ![nextInst] = "launching"]
            /\ nextInst' = nextInst + 1
            /\ calls' = [calls EXCEPT ![c] =
                 [IdleCall EXCEPT !.op = "create", !.arg = n, !.pc = "launch",
                                  !.inst = nextInst,
                                  !.overl = CreatesInFlight(n)]]
  /\ UNCHANGED <<instances, browser, context, pages, engine, pageCtr>>

\* A caller of the manager calls create.
CreateStart(c, n) ==
  /\ create(c, n)
  /\ UNCHANGED restVars
  /\ events' = Silent

\* chromium.launch resolved: launch() stores the handle and awaits newContext.
LaunchBrowserOk(c) ==
  /\ calls[c].op = "create" /\ calls[c].pc = "launch"
  /\ browser' = [browser EXCEPT ![calls[c].inst] = TRUE]
  /\ engine' = [engine EXCEPT ![calls[c].inst] = "up"]
  /\ calls' = [calls EXCEPT ![c].pc = "context"]
  /\ UNCHANGED <<instances, iname, status, context, pages, nextInst, pageCtr,
                 nCalls>>
  /\ UNCHANGED restVars
  /\ events' = Silent

\* chromium.launch threw: launch()'s catch sets error and rethrows; create
\* propagates the failure without registering.
LaunchBrowserFail(c) ==
  /\ calls[c].op = "create" /\ calls[c].pc = "launch"
  /\ status' = [status EXCEPT ![calls[c].inst] = "error"]
  /\ calls' = [calls EXCEPT ![c].pc = "done", ![c].res = "launch_failed"]
  /\ UNCHANGED <<instances, iname, browser, context, pages, engine, nextInst,
                 pageCtr, nCalls>>
  /\ UNCHANGED restVars
  /\ events' = Silent

\* browser.newContext resolved: launch() becomes ready and returns; create
\* registers the instance under its name, emits browser:created and returns
\* it.
LaunchContextOk(c) ==
  /\ calls[c].op = "create" /\ calls[c].pc = "context"
  /\ context' = [context EXCEPT ![calls[c].inst] = TRUE]
  /\ status' = [status EXCEPT ![calls[c].inst] = "ready"]
  /\ instances' = [instances EXCEPT ![calls[c].arg] = calls[c].inst]
  /\ calls' = [calls EXCEPT ![c].pc = "done", ![c].res = "ok"]
  /\ UNCHANGED <<iname, browser, pages, engine, nextInst, pageCtr, nCalls>>
  /\ UNCHANGED restVars
  /\ events' = HeardLife(<<Life("browser:created", calls[c].arg)>>)

\* LaunchContextFail with the instance registered although its launch threw.
LaunchContextFailRegisters(c) ==
  /\ calls[c].op = "create" /\ calls[c].pc = "context"
  /\ status' = [status EXCEPT ![calls[c].inst] = "error"]
  /\ instances' = [instances EXCEPT ![calls[c].arg] = calls[c].inst]
  /\ calls' = [calls EXCEPT ![c].pc = "done", ![c].res = "launch_failed"]
  /\ UNCHANGED <<iname, browser, context, pages, engine, nextInst, pageCtr,
                 nCalls>>
  /\ UNCHANGED restVars
  /\ events' = Silent

\* browser.newContext threw: the handle stays set, status becomes error.
LaunchContextFail(c) ==
  /\ calls[c].op = "create" /\ calls[c].pc = "context"
  /\ status' = [status EXCEPT ![calls[c].inst] = "error"]
  /\ calls' = [calls EXCEPT ![c].pc = "done", ![c].res = "launch_failed"]
  /\ UNCHANGED <<instances, iname, browser, context, pages, engine, nextInst,
                 pageCtr, nCalls>>
  /\ UNCHANGED restVars
  /\ events' = Silent

\* BrowserInstance.close after `await this.browser.close()` resolved: the
\* handles are dropped, the pages cleared, the status set to closed.
InstanceClosed(i) ==
  /\ browser' = [browser EXCEPT ![i] = FALSE]
  /\ context' = [context EXCEPT ![i] = FALSE]
  /\ pages' = [pages EXCEPT ![i] = <<>>]
  /\ status' = [status EXCEPT ![i] = "closed"]
  /\ engine' = [engine EXCEPT ![i] = "down"]

\* CloseStart with the entry deleted before the instance's close is awaited.
CloseStartDeletesFirst(c, n) ==
  /\ Issue(c)
  /\ IF ~has(n)
       THEN /\ calls' = [calls EXCEPT ![c] =
                 [IdleCall EXCEPT !.op = "close", !.arg = n, !.pc = "done",
                                  !.res = "not_found"]]
            /\ UNCHANGED instances
       ELSE /\ calls' = [calls EXCEPT ![c] =
                 [IdleCall EXCEPT !.op = "close", !.arg = n,
                                  !.pc = IF browser[instances[n]]
                                         THEN "closing" ELSE "done",
                                  !.inst = instances[n],
                                  !.pend = IF browser[instances[n]]
                                           THEN {instances[n]} ELSE {},
                                  !.res = IF browser[instances[n]]
                                          THEN "pending" ELSE "ok"]]
            /\ instances' = [instances EXCEPT ![n] = 0]
  /\ UNCHANGED <<iname, status, browser, context, pages, engine, nextInst,
                 pageCtr>>
  /\ UNCHANGED restVars
  /\ events' = Silent

\* BrowserManager.close up to its suspension: the lookup, then instance.close(),
\* which awaits the engine's close only when the handle is set; on an instance
\* without a handle close() is a no-op and the entry is deleted at once.
close(c, n) ==
  /\ Issue(c)
  /\ IF ~has(n)
       THEN /\ calls' = [calls EXCEPT ![c] =
                 [IdleCall EXCEPT !.op = "close", !.arg = n, !.pc = "done",
                                  !.res = "not_found"]]
            /\ UNCHANGED instances
       ELSE IF browser[instances[n]]
         THEN /\ calls' = [calls EXCEPT ![c] =
                   [IdleCall EXCEPT !.op = "close", !.arg = n,
                                    !.pc = "closing", !.inst = instances[n],
                                    !.pend = {instances[n]}]]
              /\ UNCHANGED instances
         ELSE /\ calls' = [calls EXCEPT ![c] =
                   [IdleCall EXCEPT !.op = "close", !.arg = n, !.pc = "done",
                                    !.inst = instances[n], !.res = "ok"]]
              /\ instances' = [instances EXCEPT ![n] = 0]
  /\ UNCHANGED <<iname, status, browser, context, pages, engine, nextInst,
                 pageCtr>>

\* close(name) called on the BrowserManager; when it deletes the entry at
\* once it also emits browser:closed.
CloseStart(c, n) == close(c, n) /\ UNCHANGED restVars
  /\ events' = IF has(n) /\ ~browser[instances[n]]
                 THEN HeardLife(<<Life("browser:closed", n)>>)
                 ELSE Silent

\* The engine's close resolved for close(name): the instance becomes closed,
\* then the entry under the name is deleted.
closeEngineOk(c) ==
  /\ calls[c].op = "close" /\ calls[c].pc = "closing"
  /\ InstanceClosed(calls[c].inst)
  /\ instances' = [instances EXCEPT ![calls[c].arg] = 0]
  /\ calls' = [calls EXCEPT ![c].pc = "done", ![c].res = "ok", ![c].pend = {}]
  /\ UNCHANGED <<iname, nextInst, pageCtr, nCalls>>

\* The engine's close resolved for a close(name) of the BrowserManager:
\* after the delete, browser:closed is emitted.
CloseEngineOk(c) == closeEngineOk(c) /\ UNCHANGED restVars
  /\ events' = HeardLife(<<Life("browser:closed", calls[c].arg)>>)

\* The engine's close threw for close(name): nothing is reset or deleted.
closeEngineFail(c) ==
  /\ calls[c].op = "close" /\ calls[c].pc = "closing"
  /\ calls' = [calls EXCEPT ![c].pc = "done", ![c].res = "close_failed",
                            ![c].pend = {}, ![c].threw = {calls[c].inst}]
  /\ UNCHANGED <<instances, iname, status, browser, context, pages, engine,
                 nextInst, pageCtr, nCalls>>

\* The engine's close threw for a close(name) of the BrowserManager.
CloseEngineFail(c) == closeEngineFail(c) /\ UNCHANGED restVars
  /\ events' = Silent

\* Array.from(this.instances.entries()): the instances registered now.
Registered == {instances[n] : n \in Names} \ {0}

\* BrowserManager.closeAll up to its suspension: one close per registered
\* instance is issued; those without a handle return at once.  With nothing to
\* await Promise.all resolves and the registry is cleared.
closeAll(c) ==
  /\ Issue(c)
  /\ LET awaited == {i \in Registered : browser[i]} IN
       IF awaited = {}
         THEN /\ calls' = [calls EXCEPT ![c] =
                   [IdleCall EXCEPT !.op = "closeAll", !.pc = "done",
                                    !.targets = Registered, !.res = "ok"]]
              /\ instances' = [n \in Names |-> 0]
         ELSE /\ calls' = [calls EXCEPT ![c] =
                   [IdleCall EXCEPT !.op = "closeAll", !.pc = "closing",
                                    !.targets = Registered,
                                    !.pend = awaited]]
              /\ UNCHANGED instances
  /\ UNCHANGED <<iname, status, browser, context, pages, engine, nextInst,
                 pageCtr>>

\* closeAll() called on the BrowserManager. Each entry's closure emits
\* browser:closed when its instance.close() has returned: those of the
\* instances without a handle do so in this run, in the order of the entries.
CloseAllStart(c) == closeAll(c) /\ UNCHANGED restVars
  /\ \E ns \in Orderings({n \in Names : has(n) /\ ~browser[instances[n]]}) :
       events' = HeardLife([k \in DOMAIN ns |-> Life("browser:closed", ns[k])])

\* Promise.all(closePromises) as one more close settles: it has already
\* rejected (res is set), or it resolves when nothing is left to await.
AllSettles(c, left) == calls[c].res = "pending" /\ left = {}

\* The engine's close resolved for one instance of closeAll.  When it was the
\* last one and none has thrown, Promise.all resolves and the registry is
\* cleared.
closeAllEngineOk(c, i) ==
  /\ calls[c].op = "closeAll" /\ i \in calls[c].pend
  /\ InstanceClosed(i)
  /\ IF AllSettles(c, calls[c].pend \ {i})
       THEN /\ instances' = [n \in Names |-> 0]
            /\ calls' = [calls EXCEPT ![c].pend = {}, ![c].pc = "done",
                                      ![c].res = "ok"]
       ELSE /\ UNCHANGED instances
            /\ calls' = [calls EXCEPT ![c].pend = @ \ {i}]
  /\ UNCHANGED <<iname, nextInst, pageCtr, nCalls>>

\* The engine's close resolved for an instance of closeAll(): its closure
\* emits browser:closed with the name of its entry.
CloseAllEngineOk(c, i) == closeAllEngineOk(c, i) /\ UNCHANGED restVars
  /\ events' = HeardLife(<<Life("browser:closed", iname[i])>>)

\* The engine's close threw for one instance of closeAll: Promise.all rejects
\* on the first throw and closeAll fails, the registry is not cleared; the
\* closes still in flight go on in the background.
closeAllEngineFail(c, i) ==
  /\ calls[c].op = "closeAll" /\ i \in calls[c].pend
  /\ calls' = [calls EXCEPT ![c].pend = @ \ {i}, ![c].threw = @ \cup {i},
                            ![c].pc = "done",
                            ![c].res = IF @ = "pending" THEN "close_failed"
                                       ELSE @]
  /\ UNCHANGED <<instances, iname, status, browser, context, pages, engine,
                 nextInst, pageCtr, nCalls>>

\* The engine's close threw for an instance of closeAll().
CloseAllEngineFail(c, i) == closeAllEngineFail(c, i) /\ UNCHANGED restVars
  /\ events' = Silent

\* The events the BrowserManager's forwarding listeners re-emit.
ForwardedTypes == {"page:created", "page:closed", "page:navigated"}

\* Forwarded with the listeners looked up through the registry.
ForwardedIfRegistered(i) == i \in Registered

\* BrowserManager.create attaches its forwarding listeners to the instance it
\* constructs, before launch() is called, and nothing removes them: they are
\* on every instance a create call constructed (an instance that is in the
\* registry was constructed by create).
Forwarded(i) ==
  \/ i \in Registered
  \/ \E c \in Calls : calls[c].op = "create" /\ calls[c].inst = i

\* this.emit(t, ...) of instance i: the instance's listeners run
\* synchronously, so a forwarded event is re-emitted by the manager (from 0)
\* with browser: config.name before emit returns.
Emit(i, t) ==
  <<[from |-> i, type |-> t, browser |-> NoName]>>
  \o (IF t \in ForwardedTypes /\ Forwarded(i)
        THEN <<[from |-> 0, type |-> t, browser |-> iname[i]]>>
        ELSE <<>>)

\* this.emit('page:navigated', { url }): the event and its relayed copy carry
\* the url.
EmitNavigated(i, u) ==
  [k \in DOMAIN Emit(i, "page:navigated") |->
     Emit(i, "page:navigated")[k] @@ [url |-> u]]

\* BrowserInstance.newPage with the context's 'page' listener: the engine
\* opens a page and the listener appends it to this.pages.
NewPage(i) ==
  /\ context[i]
  /\ pageCtr < MaxPages
  /\ pageCtr' = pageCtr + 1
  /\ pages' = [pages EXCEPT ![i] = Append(@, pageCtr + 1)]
  /\ events' = Heard(Emit(i, "page:created"))
  /\ UNCHANGED <<instances, iname, status, browser, context, engine, nextInst,
                 calls, nCalls>>
  /\ UNCHANGED restVars

\* The page's 'close' listener: the page is removed from this.pages.
PageClosed(i, k) ==
  /\ k \in DOMAIN pages[i]
  /\ pages' = [pages EXCEPT ![i] =
                 SubSeq(@, 1, k - 1) \o SubSeq(@, k + 1, Len(@))]
  /\ events' = Heard(Emit(i, "page:closed"))
  /\ UNCHANGED <<instances, iname, status, browser, context, engine, nextInst,
                 pageCtr, calls, nCalls>>
  /\ UNCHANGED restVars


\* ----------------------------------------------------------- browser state

\* The URLs a page can be at: a new page's about:blank, the site's base URL
\* and its login page.
Urls == {"about:blank", "base", "base/login"}
Origin(u) == IF u = "about:blank" THEN "blank" ELSE "site"
Origins == {"blank", "site"}
PageIds == 1..MaxPages

\* An empty Record<string, string> / cookie list.
NoMap == <<>>

\* Object.entries(data) written key by key with setItem; addCookies: the given
\* entries replace those of the same key, the others stay.
Merge(m, d) ==
  [k \in DOMAIN m \cup DOMAIN d |-> IF k \in DOMAIN d THEN d[k] ELSE m[k]]

\* BrowserInstance.getCurrentPage: the last value of this.pages, 0 for null.
getCurrentPage(i) == IF pages[i] = <<>> THEN 0 ELSE pages[i][Len(pages[i])]

\* BrowserInstance.extractSession: the context's cookies, and the URL and the
\* storage of the current page only (empty without a page).
extractSession(i) ==
  LET p == getCurrentPage(i) IN
    [browserName |-> iname[i],
     cookies |-> cookies[i],
     localStorage |-> IF p = 0 THEN NoMap ELSE lstore[i][Origin(purl[p])],
     sessionStorage |-> IF p = 0 THEN NoMap ELSE sstore[p][Origin(purl[p])],
     url |-> IF p = 0 THEN "" ELSE purl[p]]

\* injectSession without the cookies.
injectSessionNoCookies(i, rec) ==
  LET fresh == getCurrentPage(i) = 0
      p == IF fresh THEN pageCtr + 1 ELSE getCurrentPage(i)
      u == IF rec.url # "" THEN rec.url
           ELSE IF fresh THEN "about:blank" ELSE purl[p]
  IN
    /\ fresh => pageCtr < MaxPages
    /\ cookies' = cookies
    /\ pages' = IF fresh THEN [pages EXCEPT ![i] = <<p>>] ELSE pages
    /\ pageCtr' = IF fresh THEN pageCtr + 1 ELSE pageCtr
    /\ purl' = [purl EXCEPT ![p] = u]
    /\ lstore' = [lstore EXCEPT ![i][Origin(u)] = Merge(@, rec.localStorage)]
    /\ sstore' = [sstore EXCEPT ![p][Origin(u)] = Merge(@, rec.sessionStorage)]
    /\ events' = Heard((IF fresh THEN Emit(i, "page:created") ELSE NoEvents)
                        \o Emit(i, "session:loaded"))

\* BrowserInstance.injectSession: cookies into the context, a page ensured,
\* navigation to the saved URL when there is one, storage written into the
\* document the page is then at, reload.
injectSession(i, rec) ==
  LET fresh == getCurrentPage(i) = 0
      p == IF fresh THEN pageCtr + 1 ELSE getCurrentPage(i)
      u == IF rec.url # "" THEN rec.url
           ELSE IF fresh THEN "about:blank" ELSE purl[p]
  IN
    /\ fresh => pageCtr < MaxPages
    /\ cookies' = [cookies EXCEPT ![i] = Merge(@, rec.cookies)]
    /\ pages' = IF fresh THEN [pages EXCEPT ![i] = <<p>>] ELSE pages
    /\ pageCtr' = IF fresh THEN pageCtr + 1 ELSE pageCtr
    /\ purl' = [purl EXCEPT ![p] = u]
    /\ lstore' = [lstore EXCEPT ![i][Origin(u)] = Merge(@, rec.localStorage)]
    /\ sstore' = [sstore EXCEPT ![p][Origin(u)] = Merge(@, rec.sessionStorage)]
    /\ events' = Heard((IF fresh THEN Emit(i, "page:created") ELSE NoEvents)
                        \o Emit(i, "session:loaded"))

\* BrowserInstance.goto: the page it acts on and returns, the current page or a
\* new one.
gotoPage(i) == IF getCurrentPage(i) = 0 THEN pageCtr + 1 ELSE getCurrentPage(i)

\* BrowserInstance.goto: the page is ensured (newPage throws without a
\* context); when the navigation succeeds (arrived) the page is at the URL, when
\* anything throws the page stays where it was.
goto(i, u, arrived) ==
  LET fresh == getCurrentPage(i) = 0 IN
    /\ (fresh /\ ~context[i]) => ~arrived
    /\ (fresh /\ context[i]) => pageCtr < MaxPages
    /\ pages' = IF fresh /\ context[i]
                  THEN [pages EXCEPT ![i] = <<pageCtr + 1>>] ELSE pages
    /\ pageCtr' = IF fresh /\ context[i] THEN pageCtr + 1 ELSE pageCtr
    /\ purl' = IF arrived THEN [purl EXCEPT ![gotoPage(i)] = u] ELSE purl
    /\ events' = Heard((IF fresh /\ context[i] THEN Emit(i, "page:created")
                         ELSE NoEvents)
                        \o (IF arrived THEN EmitNavigated(i, u)
                            ELSE NoEvents))
    /\ UNCHANGED <<cookies, lstore, sstore>>

\* A new context has no cookies and no storage; a new page is at about:blank.
WebInit ==
  /\ cookies = [i \in Insts |-> NoMap]
  /\ purl = [p \in PageIds |-> "about:blank"]
  /\ lstore = [i \in Insts |-> [o \in Origins |-> NoMap]]
  /\ sstore = [p \in PageIds |-> [o \in Origins |-> NoMap]]

\* ------------------------------------------------------------ session store

\* [a-zA-Z0-9_-]
SafeChars ==
  {"a", "b", "c", "d", "e", "f", "g", "h", "i", "j", "k", "l", "m", "n", "o",
   "p", "q", "r", "s", "t", "u", "v", "w", "x", "y", "z",
   "A", "B", "C", "D", "E", "F", "G", "H", "I", "J", "K", "L", "M", "N", "O",
   "P", "Q", "R", "S", "T", "U", "V", "W", "X", "Y", "Z",
   "0", "1", "2", "3", "4", "5", "6", "7", "8", "9", "_", "-"}

\* name.replace(/[^a-zA-Z0-9_-]/g, '_')
Sanitize(name) ==
  [k \in DOMAIN name |-> IF name[k] \in SafeChars THEN name[k] ELSE "_"]

JsonExt == <<".", "j", "s", "o", "n">>

\* getSessionPath without the replacement of unsafe characters.
getSessionPathRaw(name) == name \o JsonExt

\* SessionManager.getSessionPath: the file's name inside the sessions directory.
getSessionPath(name) == Sanitize(name) \o JsonExt

\* file.endsWith('.json')
EndsWith(f, suffix) ==
  /\ Len(f) >= Len(suffix)
  /\ SubSeq(f, Len(f) - Len(suffix) + 1, Len(f)) = suffix

\* file.replace('.json', ''): the first occurrence is removed.
ReplaceFirst(f, pat) ==
  LET at == {k \in 1..(Len(f) - Len(pat) + 1) :
               SubSeq(f, k, k + Len(pat) - 1) = pat}
  IN IF at = {} THEN f
     ELSE LET k == CHOOSE x \in at : \A y \in at : x <= y
          IN SubSeq(f, 1, k - 1) \o SubSeq(f, k + Len(pat), Len(f))

\* SessionManager.list
SessionList ==
  {ReplaceFirst(f, JsonExt) : f \in {g \in DOMAIN files : EndsWith(g, JsonExt)}}

\* SessionManager.exists
SessionExists(name) == getSessionPath(name) \in DOMAIN files

\* SessionManager.load, for a name whose file exists.
SessionLoad(name) == files[getSessionPath(name)]

\* The content of a file that JSON.parse rejects (empty, truncated, garbage).
Corrupt == [corrupt |-> TRUE]

\* null, as returned by load.
Null == [null |-> TRUE]

\* SessionManager.load: null when the file does not exist, null when reading
\* or parsing throws, the parsed record otherwise.
load(name) ==
  IF ~SessionExists(name) THEN Null
  ELSE IF SessionLoad(name) = Corrupt THEN Null
  ELSE SessionLoad(name)

\* SessionManager.save: the file of the record's name is written.
SessionSaved(fs, rec) ==
  [f \in DOMAIN fs \cup {getSessionPath(rec.name)} |->
     IF f = getSessionPath(rec.name) THEN rec ELSE fs[f]]

\* SessionManager.delete: the file of the name is unlinked when it exists.
SessionDeleted(fs, name) ==
  [f \in DOMAIN fs \ {getSessionPath(name)} |-> fs[f]]

\* new SessionManager(): nothing is stored.
StoreInit ==
  /\ files = <<>>
  /\ last = [op |-> "none", site |-> NoName, sn |-> NoName, res |-> "none"]

\* BrowserManager.saveSession: what the call ends with.
MgrSaveResult(bn) ==
  IF ~has(bn) THEN "not_found"
  ELSE IF ~context[instances[bn]] THEN "not_launched"
  ELSE "ok"

\* BrowserManager.saveSession: the extracted state is stamped with the session
\* name and the time and written to the store.
MgrSaveSession(bn, sn) ==
  IF MgrSaveResult(bn) = "ok"
    THEN files' = SessionSaved(files,
           [name |-> sn, createdAt |-> now, updatedAt |-> now]
             @@ extractSession(instances[bn]))
    ELSE UNCHANGED files

\* BrowserManager.loadSession: what the call ends with.
MgrLoadResult(bn, sn) ==
  IF ~has(bn) THEN "not_found"
  ELSE IF load(sn) = Null THEN "session_not_found"
  ELSE IF ~context[instances[bn]] THEN "not_launched"
  ELSE "ok"

\* BrowserManager.loadSession: the stored record is injected into the instance.
MgrLoadSession(bn, sn) ==
  IF MgrLoadResult(bn, sn) = "ok"
    THEN injectSession(instances[bn], load(sn))
    ELSE /\ UNCHANGED <<cookies, pages, pageCtr, purl, lstore, sstore>>
         /\ events' = Silent

\* ---------------------------------------------------------------- workflows

\* const maxWaitMs = 5 * 60 * 1000; const pollIntervalMs = 2000
MaxWaitMs == 5 * 60 * 1000
PollIntervalMs == 2000

\* The polls that fit below the ceiling when each takes one interval.
MaxPolls == MaxWaitMs \div PollIntervalMs

\* The count of polls after one more poll; past MaxPolls + 1 it is not
\* counted further.
Polled(n) == IF n > MaxPolls THEN n ELSE n + 1

\* config.baseUrl of a site.
BaseUrl == "base"

\* page.url().includes(this.config.baseUrl)
UrlIncludesBase(u) == u \in {"base", "base/login"}

\* A SiteConfig as given to addSite: sessionName is optional, and may be given
\* empty; no entry is exists = FALSE.
NoConfig == [exists |-> FALSE, given |-> FALSE, sessionName |-> NoName]
SiteConfigs ==
  {[exists |-> TRUE, given |-> FALSE, sessionName |-> NoName],
   [exists |-> TRUE, given |-> TRUE, sessionName |-> NoName],
   [exists |-> TRUE, given |-> TRUE, sessionName |-> <<"a", "/", "b">>]}

\* The type tags a workflow class can be registered under.
Tags == {<<"a">>}

\* `${config.id}-session`
DefaultSessionName(id) == id \o <<"-", "s", "e", "s", "s", "i", "o", "n">>

\* siteId.includes(type)
Includes(str, t) ==
  \E k \in 0..(Len(str) - Len(t)) : SubSeq(str, k + 1, k + Len(t)) = t

\* ResolveClass with the first tag that is a substring of the site id, an
\* exact match being one of them.
ResolveClassSubstringFirst(siteId) ==
  LET hits == {k \in DOMAIN registry : Includes(siteId, registry[k])}
  IN IF hits = {} THEN NoName
     ELSE registry[CHOOSE k \in hits : \A j \in hits : k <= j]

\* WorkflowManager.getWorkflow, the class lookup: the exact tag, else the first
\* registered tag the site id contains; NoName when there is none.
ResolveClass(siteId) ==
  IF \E k \in DOMAIN registry : registry[k] = siteId THEN siteId
  ELSE LET hits == {k \in DOMAIN registry : Includes(siteId, registry[k])}
       IN IF hits = {} THEN NoName
          ELSE registry[CHOOSE k \in hits : \A j \in hits : k <= j]

\* No cached workflow. gen counts the runs of the workflow constructor for
\* the site id; it tells one workflow object of a site from the next.
NoWf ==
  [exists |-> FALSE, sessionName |-> NoName, cls |-> NoName, browser |-> 0,
   page |-> 0, gen |-> 0]

\* new WorkflowClass(config, manager): BaseSiteWorkflow's constructor spreads
\* the config over the default session name.
NewWorkflow(siteId) ==
  [exists |-> TRUE,
   sessionName |-> IF configs[siteId].given THEN configs[siteId].sessionName
                   ELSE DefaultSessionName(siteId),
   cls |-> ResolveClass(siteId), browser |-> 0, page |-> 0, gen |-> 1]

\* getWorkflow, lines 76-77: the workflow constructed and cached now.
ConstructedWorkflow(siteId) ==
  [NewWorkflow(siteId) EXCEPT !.gen = wfs[siteId].gen + 1]

\* instances.delete(siteId) / instances.clear(): the entry is gone.
Evicted(w) == [NoWf EXCEPT !.gen = w.gen]

\* WorkflowManager.getWorkflow: what the call ends with.
getWorkflowResult(siteId) ==
  IF wfs[siteId].exists THEN "ok"
  ELSE IF ~configs[siteId].exists THEN "no_config"
  ELSE IF ResolveClass(siteId) = NoName THEN "no_workflow"
  ELSE "ok"

\* No WorkflowManager call in progress.
LoginIdle ==
  [pc |-> "idle", op |-> "none", site |-> NoName, out |-> "none",
   success |-> FALSE, error |-> "none", startTime |-> 0,
   saves |-> 0, already |-> FALSE, sawTrue |-> FALSE, late |-> 0, call |-> 0,
   polls |-> 0]

\* new WorkflowManager(): nothing registered, configured or cached.
WfInit ==
  /\ now = 0
  /\ configs = [n \in Names |-> NoConfig]
  /\ registry = <<>>
  /\ wfs = [n \in Names |-> NoWf]
  /\ login = LoginIdle

\* BaseSiteWorkflow.saveSession: what the call ends with.
WfSaveResult(siteId) ==
  IF wfs[siteId].sessionName = NoName THEN "ok" ELSE MgrSaveResult(siteId)

\* BaseSiteWorkflow.saveSession: delegated to the manager when a session name
\* is configured, nothing otherwise.
WfSaveSession(siteId) ==
  IF wfs[siteId].sessionName # NoName
    THEN MgrSaveSession(siteId, wfs[siteId].sessionName)
    ELSE UNCHANGED files

\* BaseSiteWorkflow.loadSession: sessions.includes(this.config.sessionName).
WfLoadFound(siteId) ==
  /\ wfs[siteId].sessionName # NoName
  /\ wfs[siteId].sessionName \in SessionList

\* BaseSiteWorkflow.loadSession: the boolean it returns (a throw of the
\* manager's loadSession is caught and gives false).
WfLoadResult(siteId) ==
  /\ WfLoadFound(siteId)
  /\ MgrLoadResult(siteId, wfs[siteId].sessionName) = "ok"

\* BaseSiteWorkflow.loadSession: its effect on the instance.
WfLoadSession(siteId) ==
  IF WfLoadFound(siteId)
    THEN MgrLoadSession(siteId, wfs[siteId].sessionName)
    ELSE /\ UNCHANGED <<cookies, pages, pageCtr, purl, lstore, sstore>>
         /\ events' = Silent

\* --------------------------------------------- sequential session operations

\* The session names given to BrowserManager.deleteSession.
SessNames ==
  {DefaultSessionName(n) : n \in Names} \cup {<<"a", "/", "b">>}

\* workflow.saveSession() on an initialised workflow.
SsWfSave(siteId) ==
  /\ wfs[siteId].exists
  /\ WfSaveSession(siteId)
  /\ last' = [op |-> "wfSave", site |-> siteId,
              sn |-> wfs[siteId].sessionName, res |-> WfSaveResult(siteId)]
  /\ UNCHANGED <<mgrVars, webVars, wfVars>>
  /\ events' = Silent

\* workflow.loadSession() on an initialised workflow.
SsWfLoad(siteId) ==
  /\ wfs[siteId].exists
  /\ WfLoadSession(siteId)
  /\ last' = [op |-> "wfLoad", site |-> siteId,
              sn |-> wfs[siteId].sessionName,
              res |-> IF WfLoadResult(siteId) THEN "true" ELSE "false"]
  /\ UNCHANGED <<instances, iname, status, browser, context, engine, nextInst,
                 calls, nCalls, files, wfVars>>

\* BrowserManager.deleteSession
SsDelete(sn) ==
  /\ files' = SessionDeleted(files, sn)
  /\ last' = [op |-> "delete", site |-> NoName, sn |-> sn, res |-> "ok"]
  /\ UNCHANGED <<mgrVars, webVars, wfVars>>
  /\ events' = Silent

\* The user logs in on the site: the site sets its session cookie and writes
\* its storage in the current page.
UserLogsIn(i) ==
  /\ getCurrentPage(i) # 0
  /\ Origin(purl[getCurrentPage(i)]) = "site"
  /\ cookies' = [cookies EXCEPT ![i] = Merge(@, [k \in {"sid"} |-> "u1"])]
  /\ lstore' = [lstore EXCEPT ![i]["site"] = Merge(@, [k \in {"tok"} |-> "t1"])]
  /\ sstore' = [sstore EXCEPT ![getCurrentPage(i)]["site"] =
                  Merge(@, [k \in {"tab"} |-> "s1"])]
  /\ UNCHANGED <<mgrVars, purl, storeVars, wfVars>>
  /\ events' = Silent

\* instance.goto(url) on the workflow's instance.
SsGoto(siteId, u) ==
  /\ wfs[siteId].exists
  /\ goto(wfs[siteId].browser, u, TRUE)
  /\ last' = [op |-> "goto", site |-> siteId, sn |-> NoName, res |-> "ok"]
  /\ UNCHANGED <<instances, iname, status, browser, context, engine, nextInst,
                 calls, nCalls, files, wfVars>>

\* The state after WorkflowManager.init(siteId) on a new manager with an
\* empty sessions directory: the instance named after the site is registered
\* and ready, its one page is at the base URL, the workflow is cached.
InitialisedSite(siteId, cfg) ==
  /\ instances = [n \in Names |-> IF n = siteId THEN 1 ELSE 0]
  /\ iname = [i \in Insts |-> IF i = 1 THEN siteId ELSE NoName]
  /\ status = [i \in Insts |-> IF i = 1 THEN "ready" ELSE "closed"]
  /\ browser = [i \in Insts |-> i = 1]
  /\ context = [i \in Insts |-> i = 1]
  /\ pages = [i \in Insts |-> IF i = 1 THEN <<1>> ELSE <<>>]
  /\ engine = [i \in Insts |-> IF i = 1 THEN "up" ELSE "none"]
  /\ nextInst = 2
  /\ pageCtr = 1
  /\ calls = [c \in Calls |-> IdleCall]
  /\ nCalls = 0
  /\ cookies = [i \in Insts |-> NoMap]
  /\ purl = [p \in PageIds |-> IF p = 1 THEN BaseUrl ELSE "about:blank"]
  /\ lstore = [i \in Insts |-> [o \in Origins |-> NoMap]]
  /\ sstore = [p \in PageIds |-> [o \in Origins |-> NoMap]]
  /\ StoreInit
  /\ now = 0
  /\ configs = [n \in Names |-> IF n = siteId THEN cfg ELSE NoConfig]
  /\ registry = <<<<"a">>>>
  /\ wfs = [n \in Names |->
              IF n = siteId
                THEN [NewWorkflow(siteId) EXCEPT !.browser = 1, !.page = 1]
                ELSE NoWf]
  /\ login = LoginIdle
  /\ events = Unheard

InitSession == \E siteId \in Names, cfg \in SiteConfigs : InitialisedSite(siteId, cfg)

NextSession ==
  \/ \E siteId \in Names : SsWfSave(siteId)
  \/ \E siteId \in Names : SsWfLoad(siteId)
  \/ \E sn \in SessNames : SsDelete(sn)
  \/ \E i \in Insts : UserLogsIn(i)
  \/ \E siteId \in Names, u \in Urls \ {"about:blank"} : SsGoto(siteId, u)

SpecSession == InitSession /\ [][NextSession]_vars

Next ==
  \/ \E c \in Calls, n \in Names : CreateStart(c, n)
  \/ \E c \in Calls : LaunchBrowserOk(c)
  \/ \E c \in Calls : LaunchBrowserFail(c)
  \/ \E c \in Calls : LaunchContextOk(c)
  \/ \E c \in Calls : LaunchContextFail(c)
  \/ \E c \in Calls, n \in Names : CloseStart(c, n)
  \/ \E c \in Calls : CloseEngineOk(c)
  \/ \E c \in Calls : CloseEngineFail(c)
  \/ \E c \in Calls : CloseAllStart(c)
  \/ \E c \in Calls, i \in Insts : CloseAllEngineOk(c, i)
  \/ \E c \in Calls, i \in Insts : CloseAllEngineFail(c, i)
  \/ \E i \in Insts : NewPage(i)
  \/ \E i \in Insts, k \in 1..MaxPages : PageClosed(i, k)

Init == MgrInit /\ WebInit /\ StoreInit /\ WfInit /\ events = Unheard

Spec == Init /\ [][Next]_vars

\* ------------------------------------------------- WorkflowManager calls

\* Lateness of a timer: a sleep resumes PollIntervalMs after it was set, or
\* JitterMs later; at most MaxLate sleeps of a login are late.
JitterMs == 500
MaxLate == 1

\* No WorkflowManager call is running: none was made yet, or the one made was
\* an init that returned. A behaviour ends with its login, or with the first
\* call that raises.
Quiet ==
  \/ login.pc = "idle"
  \/ login.pc = "done" /\ login.op = "init" /\ login.out = "returned"

\* WorkflowManager.register: Map.set keeps the position of a known key.
Register(t) ==
  /\ Quiet
  /\ registry' = IF \E k \in DOMAIN registry : registry[k] = t THEN registry
                 ELSE Append(registry, t)
  /\ UNCHANGED <<mgrVars, webVars, storeVars, now, configs, wfs, login>>
  /\ events' = Silent

\* WorkflowManager.addSite; one site is configured in a behaviour.
AddSite(siteId, cfg) ==
  /\ Quiet
  /\ \A n \in Names \ {siteId} : ~configs[n].exists
  /\ configs' = [configs EXCEPT ![siteId] = cfg]
  /\ UNCHANGED <<mgrVars, webVars, storeVars, now, registry, wfs, login>>
  /\ events' = Silent

\* The call ends by raising err.
Raised(err) ==
  [login EXCEPT !.pc = "done", !.out = "raised", !.success = FALSE, !.error = err]

\* The call ends by returning; login returns a WorkflowResult.
Returned(ok, err) ==
  [login EXCEPT !.pc = "done", !.out = "returned", !.success = ok, !.error = err]

\* WmCall with a missing configuration reported in a returned WorkflowResult.
WmCallReturnsEnvelope(op, siteId) ==
  /\ Quiet
  /\ ~wfs[siteId].exists /\ ~configs[siteId].exists
  /\ login' = [LoginIdle EXCEPT !.pc = "done", !.op = op, !.site = siteId,
                                !.out = "returned", !.error = "no_config"]
  /\ UNCHANGED <<mgrVars, webVars, storeVars, now, configs, registry, wfs>>
  /\ events' = Silent

\* wmCall with workflow.init() creating the instance without the has-check.
wmCallAlwaysCreates(op, siteId) ==
  /\ \A n \in Names \ {siteId} : ~wfs[n].exists
  /\ IF getWorkflowResult(siteId) # "ok"
       THEN /\ login' = [LoginIdle EXCEPT !.pc = "done", !.op = op,
                                          !.site = siteId, !.out = "raised",
                                          !.error = getWorkflowResult(siteId)]
            /\ UNCHANGED <<mgrVars, wfs>>
       ELSE /\ create(nCalls + 1, siteId)
            /\ wfs' = [wfs EXCEPT ![siteId] =
                         IF wfs[siteId].exists THEN wfs[siteId]
                         ELSE ConstructedWorkflow(siteId)]
            /\ login' = [LoginIdle EXCEPT !.pc = "create", !.op = op,
                                          !.site = siteId,
                                          !.call = nCalls + 1]
  /\ UNCHANGED <<webVars, storeVars, now, configs, registry>>
  /\ events' = Silent

\* WorkflowManager.init(siteId) / login(siteId) up to the first suspension:
\* getWorkflow (cached, or resolved, constructed and cached, or a throw), then
\* workflow.init() up to its first await: the has-check and either get or the
\* start of create.
wmCall(op, siteId) ==
  /\ \A n \in Names \ {siteId} : ~wfs[n].exists
  /\ IF getWorkflowResult(siteId) # "ok"
       THEN /\ login' = [LoginIdle EXCEPT !.pc = "done", !.op = op,
                                          !.site = siteId, !.out = "raised",
                                          !.error = getWorkflowResult(siteId)]
            /\ UNCHANGED <<mgrVars, wfs>>
       ELSE LET w == IF wfs[siteId].exists THEN wfs[siteId]
                     ELSE ConstructedWorkflow(siteId)
            IN IF has(siteId)
                 THEN /\ wfs' = [wfs EXCEPT ![siteId] =
                                   [w EXCEPT !.browser = instances[siteId]]]
                      /\ login' = [LoginIdle EXCEPT !.pc = "loadSession",
                                                    !.op = op, !.site = siteId]
                      /\ UNCHANGED mgrVars
                 ELSE /\ create(nCalls + 1, siteId)
                      /\ wfs' = [wfs EXCEPT ![siteId] = w]
                      /\ login' = [LoginIdle EXCEPT !.pc = "create", !.op = op,
                                                    !.site = siteId,
                                                    !.call = nCalls + 1]
  /\ UNCHANGED <<webVars, storeVars, now, configs, registry>>

\* init(siteId) or login(siteId) called on the WorkflowManager.
WmCall(op, siteId) == Quiet /\ wmCall(op, siteId)
  /\ events' = Silent

\* workflow.init() resumes from `await this.manager.create(...)`: the instance
\* is kept, or the launch failure propagates out of init and of the call.
WfCreated ==
  /\ login.pc = "create"
  /\ calls[login.call].pc = "done"
  /\ IF calls[login.call].res = "ok"
       THEN /\ wfs' = [wfs EXCEPT ![login.site].browser = calls[login.call].inst]
            /\ login' = [login EXCEPT !.pc = "loadSession"]
       ELSE /\ login' = Raised(calls[login.call].res)
            /\ UNCHANGED wfs
  /\ UNCHANGED <<mgrVars, webVars, storeVars, now, configs, registry>>
  /\ events' = Silent

\* workflow.init(): `await this.loadSession()`.
WfInitLoadSession ==
  /\ login.pc = "loadSession"
  /\ WfLoadSession(login.site)
  /\ login' = [login EXCEPT !.pc = "goto"]
  /\ UNCHANGED <<instances, iname, status, browser, context, engine, nextInst,
                 calls, nCalls, storeVars, now, configs, registry, wfs>>

\* workflow.init(): `this.page = await this.browser.goto(baseUrl)`; init
\* returns, and login(siteId) goes on with workflow.login(). A failed
\* navigation propagates with this.page unset.
WfInitGoto(arrived) ==
  /\ login.pc = "goto"
  /\ goto(wfs[login.site].browser, BaseUrl, arrived)
  /\ IF arrived
       THEN /\ wfs' = [wfs EXCEPT ![login.site].page =
                         gotoPage(wfs[login.site].browser)]
            /\ login' = IF login.op = "init" THEN Returned(TRUE, "none")
                        ELSE [login EXCEPT !.pc = "login"]
       ELSE /\ wfs' = wfs
            /\ login' = Raised("navigation_failed")
  /\ UNCHANGED <<instances, iname, status, browser, context, engine, nextInst,
                 calls, nCalls, storeVars, now, configs, registry>>

\* LoginStart entering the loop whatever the first isLoggedIn() reads.
LoginStartAlwaysPolls(r) ==
  /\ login.pc = "login"
  /\ purl' = IF UrlIncludesBase(purl[wfs[login.site].page]) THEN purl
             ELSE [purl EXCEPT ![wfs[login.site].page] = BaseUrl]
  /\ login' = [login EXCEPT !.pc = "loop", !.startTime = now, !.already = r]
  /\ UNCHANGED <<mgrVars, cookies, lstore, sstore, storeVars, now, configs,
                 registry, wfs>>
  /\ events' = Silent

\* BaseSiteWorkflow.login up to the loop: getPage, navigateToLogin, the first
\* isLoggedIn() (r is what it reads), startTime = Date.now().
LoginStart(r) ==
  /\ login.pc = "login"
  /\ purl' = IF UrlIncludesBase(purl[wfs[login.site].page]) THEN purl
             ELSE [purl EXCEPT ![wfs[login.site].page] = BaseUrl]
  /\ login' = IF r THEN [Returned(TRUE, "none") EXCEPT !.already = TRUE]
              ELSE [login EXCEPT !.pc = "loop", !.startTime = now]
  /\ UNCHANGED <<mgrVars, cookies, lstore, sstore, storeVars, now, configs,
                 registry, wfs>>
  /\ events' = Silent

\* InTime with the ceiling included.
InTimeInclusive == now - login.startTime <= MaxWaitMs

\* Date.now() - startTime < maxWaitMs
InTime == now - login.startTime < MaxWaitMs

\* LoginPollTrue returning success without saving the session.
LoginPollTrueNoSave ==
  /\ login.pc = "loop" /\ InTime
  /\ login' = [Returned(TRUE, "none") EXCEPT !.sawTrue = TRUE,
                                             !.polls = Polled(@)]
  /\ UNCHANGED <<mgrVars, webVars, storeVars, now, configs, registry, wfs>>
  /\ events' = Silent

\* A poll of the loop reads isLoggedIn() = true: saveSession(), then the
\* success result; a throw of the manager's saveSession propagates.
LoginPollTrue ==
  /\ login.pc = "loop" /\ InTime
  /\ WfSaveSession(login.site)
  /\ login' = IF WfSaveResult(login.site) = "ok"
                THEN [Returned(TRUE, "none") EXCEPT
                        !.sawTrue = TRUE, !.polls = Polled(@),
                        !.saves = IF wfs[login.site].sessionName # NoName
                                    THEN @ + 1 ELSE @]
                ELSE [Raised(WfSaveResult(login.site)) EXCEPT
                        !.sawTrue = TRUE, !.polls = Polled(@)]
  /\ UNCHANGED <<mgrVars, webVars, last, now, configs, registry, wfs>>
  /\ events' = Silent

\* A poll reads true and the asynchronous part of the save (extracting the
\* state, writing the file) throws: login raises, nothing is written.
LoginPollTrueSaveFails ==
  /\ login.pc = "loop" /\ InTime
  /\ wfs[login.site].sessionName # NoName
  /\ MgrSaveResult(login.site) = "ok"
  /\ login' = [Raised("save_failed") EXCEPT !.sawTrue = TRUE,
                                            !.polls = Polled(@)]
  /\ UNCHANGED <<mgrVars, webVars, storeVars, now, configs, registry, wfs>>
  /\ events' = Silent

\* A poll reads isLoggedIn() = false: `await this.sleep(pollIntervalMs)`.
LoginPollFalse ==
  /\ login.pc = "loop" /\ InTime
  /\ login' = [login EXCEPT !.pc = "sleep", !.polls = Polled(@)]
  /\ UNCHANGED <<mgrVars, webVars, storeVars, now, configs, registry, wfs>>
  /\ events' = Silent

\* LoginWake with a sleep that resolves at once.
LoginWakeNoWait(d) ==
  /\ login.pc = "sleep"
  /\ d = 0
  /\ login' = [login EXCEPT !.pc = "loop"]
  /\ UNCHANGED <<mgrVars, webVars, storeVars, now, configs, registry, wfs>>
  /\ events' = Silent

\* The timer of sleep fires, d ms late: the loop condition is read next.
LoginWake(d) ==
  /\ login.pc = "sleep"
  /\ d = 0 \/ (d = JitterMs /\ login.late < MaxLate)
  /\ now' = now + PollIntervalMs + d
  /\ login' = [login EXCEPT !.pc = "loop",
                            !.late = IF d = 0 THEN @ ELSE @ + 1]
  /\ UNCHANGED <<mgrVars, webVars, storeVars, configs, registry, wfs>>
  /\ events' = Silent

\* The loop condition is false: the timeout result.
LoginTimeout ==
  /\ login.pc = "loop" /\ ~InTime
  /\ login' = Returned(FALSE, "timeout")
  /\ UNCHANGED <<mgrVars, webVars, storeVars, now, configs, registry, wfs>>
  /\ events' = Silent

\* One poll of the loop, whatever it reads.
LoginPoll == LoginPollTrue \/ LoginPollTrueSaveFails \/ LoginPollFalse

NextLogin ==
  \/ \E t \in Tags : Register(t)
  \/ \E siteId \in Names, cfg \in SiteConfigs : AddSite(siteId, cfg)
  \/ \E op \in {"init", "login"}, siteId \in Names : WmCall(op, siteId)
  \/ \E c \in Calls : LaunchBrowserOk(c)
  \/ \E c \in Calls : LaunchBrowserFail(c)
  \/ \E c \in Calls : LaunchContextOk(c)
  \/ \E c \in Calls : LaunchContextFail(c)
  \/ WfCreated
  \/ WfInitLoadSession
  \/ \E arrived \in BOOLEAN : WfInitGoto(arrived)
  \/ \E r \in BOOLEAN : LoginStart(r)
  \/ LoginPollTrue
  \/ LoginPollTrueSaveFails
  \/ LoginPollFalse
  \/ \E d \in {0, JitterMs} : LoginWake(d)
  \/ LoginTimeout

SpecLogin == Init /\ [][NextLogin]_vars

\* The login's own steps are taken when they stay possible: its polls, its
\* timers and its exit are not postponed forever.
SpecLoginFair ==
  /\ Init /\ [][NextLogin]_vars
  /\ WF_vars(LoginPoll)
  /\ WF_vars(\E d \in {0, JitterMs} : LoginWake(d))
  /\ WF_vars(LoginTimeout)

\* ------------------------------------- WorkflowManager: cache and teardown

\* No WorkflowManager call is awaiting anything.
WmQuiet == login.pc \in {"idle", "done"}

\* WmGetWorkflow with a workflow constructed on every call.
WmGetWorkflowAlwaysConstructs(op, siteId) ==
  /\ \A n \in Names \ {siteId} : ~wfs[n].exists
  /\ configs[siteId].exists /\ ResolveClass(siteId) # NoName
  /\ wfs[siteId].gen < MaxCalls
  /\ wfs' = [wfs EXCEPT ![siteId] = ConstructedWorkflow(siteId)]
  /\ last' = [op |-> op, site |-> siteId, sn |-> NoName, res |-> "ok",
              wf |-> wfs'[siteId].gen]
  /\ UNCHANGED <<mgrVars, webVars, files, now, configs, registry, login>>
  /\ events' = Silent

\* WmGetWorkflow with the workflow class resolved before the configuration
\* is looked up.
WmGetWorkflowClassFirst(op, siteId) ==
  LET res == IF wfs[siteId].exists THEN "ok"
             ELSE IF ResolveClass(siteId) = NoName THEN "no_workflow"
             ELSE IF ~configs[siteId].exists THEN "no_config"
             ELSE "ok"
  IN
    /\ \A n \in Names \ {siteId} : ~wfs[n].exists
    /\ wfs[siteId].gen < MaxCalls
    /\ wfs' = IF res = "ok" /\ ~wfs[siteId].exists
                THEN [wfs EXCEPT ![siteId] = ConstructedWorkflow(siteId)]
                ELSE wfs
    /\ last' = [op |-> op, site |-> siteId, sn |-> NoName, res |-> res,
                wf |-> IF res = "ok" THEN wfs'[siteId].gen ELSE 0]
    /\ UNCHANGED <<mgrVars, webVars, files, now, configs, registry, login>>
    /\ events' = Silent

\* getWorkflow(siteId), which is also how isLoggedIn(siteId) starts: it has
\* no await before instances.set, so it runs whole at any moment, also while
\* an init or a close of the WorkflowManager is suspended. It returns the
\* cached workflow, or constructs and caches one, or throws.
WmGetWorkflow(op, siteId) ==
  /\ \A n \in Names \ {siteId} : ~wfs[n].exists
  /\ wfs[siteId].gen < MaxCalls
  /\ wfs' = IF getWorkflowResult(siteId) = "ok" /\ ~wfs[siteId].exists
              THEN [wfs EXCEPT ![siteId] = ConstructedWorkflow(siteId)]
              ELSE wfs
  /\ last' = [op |-> op, site |-> siteId, sn |-> NoName,
              res |-> getWorkflowResult(siteId),
              wf |-> IF getWorkflowResult(siteId) = "ok"
                       THEN wfs'[siteId].gen ELSE 0]
  /\ UNCHANGED <<mgrVars, webVars, files, now, configs, registry, login>>
  /\ events' = Silent

\* init(siteId) called when no WorkflowManager call is suspended.
WmInit(siteId) ==
  /\ WmQuiet
  /\ nCalls < MaxCalls
  /\ wfs[siteId].gen < MaxCalls
  /\ wmCall("init", siteId)
  /\ events' = Silent

\* The call of the WorkflowManager returns.
WmReturned(op, siteId) ==
  [LoginIdle EXCEPT !.pc = "done", !.op = op, !.site = siteId,
                    !.out = "returned", !.success = TRUE]

\* The close awaited by the suspended close(siteId) or closeAll() is call c.
WmAwaits(c) == login.pc = "closing" /\ login.call = c

\* WmCloseDone with the cached workflow dropped although its close threw.
WmCloseDoneEvictsAnyway(ok) ==
  /\ login.pc = "closing" /\ login.op = "close"
  /\ IF ok THEN closeEngineOk(login.call) ELSE closeEngineFail(login.call)
  /\ wfs' = [wfs EXCEPT ![login.site] = Evicted(@)]
  /\ login' = IF ok THEN Returned(TRUE, "none") ELSE Raised("close_failed")
  /\ UNCHANGED <<webVars, storeVars, now, configs, registry>>
  /\ events' = Silent

\* WorkflowManager.close(siteId) up to its suspension. Without a cached
\* workflow nothing is done. workflow.close() is a no-op when the workflow
\* holds no instance; else it calls manager.close(siteId). When nothing is
\* awaited on the engine the call finishes in the same run: the references
\* are nulled and the entry deleted, or the manager's throw propagates.
WmClose(siteId) ==
  /\ WmQuiet
  /\ IF ~wfs[siteId].exists
       THEN /\ login' = WmReturned("close", siteId)
            /\ UNCHANGED <<mgrVars, wfs>>
       ELSE IF wfs[siteId].browser = 0
         THEN /\ wfs' = [wfs EXCEPT ![siteId] = Evicted(@)]
              /\ login' = WmReturned("close", siteId)
              /\ UNCHANGED mgrVars
         ELSE /\ nCalls < MaxCalls
              /\ close(nCalls + 1, siteId)
              /\ IF ~has(siteId)
                   THEN /\ login' = [WmReturned("close", siteId) EXCEPT
                                       !.out = "raised", !.success = FALSE,
                                       !.error = "not_found",
                                       !.call = nCalls + 1]
                        /\ UNCHANGED wfs
                   ELSE IF ~browser[instances[siteId]]
                     THEN /\ login' = [WmReturned("close", siteId) EXCEPT
                                         !.call = nCalls + 1]
                          /\ wfs' = [wfs EXCEPT ![siteId] = Evicted(@)]
                     ELSE /\ login' = [LoginIdle EXCEPT
                                         !.pc = "closing", !.op = "close",
                                         !.site = siteId, !.call = nCalls + 1]
                          /\ UNCHANGED wfs
  /\ UNCHANGED <<webVars, storeVars, now, configs, registry>>
  /\ events' = Silent

\* The engine's close settles for the manager.close that close(siteId)
\* awaits, and the continuations run on in the same turn, through
\* manager.close and workflow.close into WorkflowManager.close: the instance
\* is unregistered, the workflow nulls its references and its entry is
\* deleted; a throw of the engine propagates through all three and leaves the
\* workflow cached with its references.
WmCloseDone(ok) ==
  /\ login.pc = "closing" /\ login.op = "close"
  /\ IF ok THEN closeEngineOk(login.call) ELSE closeEngineFail(login.call)
  /\ wfs' = IF ok THEN [wfs EXCEPT ![login.site] = Evicted(@)] ELSE wfs
  /\ login' = IF ok THEN Returned(TRUE, "none") ELSE Raised("close_failed")
  /\ UNCHANGED <<webVars, storeVars, now, configs, registry>>
  /\ events' = Silent

\* WorkflowManager.closeAll() up to its suspension: manager.closeAll(); with
\* nothing to await the cache is cleared in the same run.
WmCloseAll ==
  /\ WmQuiet
  /\ nCalls < MaxCalls
  /\ closeAll(nCalls + 1)
  /\ IF {i \in Registered : browser[i]} = {}
       THEN /\ login' = [WmReturned("closeAll", NoName) EXCEPT
                           !.call = nCalls + 1]
            /\ wfs' = [n \in Names |-> Evicted(wfs[n])]
       ELSE /\ login' = [LoginIdle EXCEPT !.pc = "closing", !.op = "closeAll",
                                          !.call = nCalls + 1]
            /\ UNCHANGED wfs
  /\ UNCHANGED <<webVars, storeVars, now, configs, registry>>
  /\ events' = Silent

\* The engine's close settles for one instance of the manager.closeAll that
\* closeAll() awaits. When Promise.all settles with it, closeAll() resumes in
\* the same turn: instances.clear(), or the throw propagates and the cache
\* stays.
WmCloseAllDone(i, ok) ==
  /\ login.pc = "closing" /\ login.op = "closeAll"
  /\ IF ok THEN closeAllEngineOk(login.call, i)
           ELSE closeAllEngineFail(login.call, i)
  /\ IF calls'[login.call].pc = "done"
       THEN IF calls'[login.call].res = "ok"
              THEN /\ wfs' = [n \in Names |-> Evicted(wfs[n])]
                   /\ login' = Returned(TRUE, "none")
              ELSE /\ UNCHANGED wfs
                   /\ login' = Raised(calls'[login.call].res)
       ELSE UNCHANGED <<wfs, login>>
  /\ UNCHANGED <<webVars, storeVars, now, configs, registry>>
  /\ events' = Silent

\* The engine's close settles for a close nobody awaits any more: the one
\* removeSite started, or one left over by a closeAll() that has thrown.
WmLateClose(c, i, ok) ==
  /\ ~WmAwaits(c)
  /\ IF calls[c].op = "close"
       THEN IF ok THEN CloseEngineOk(c) ELSE CloseEngineFail(c)
       ELSE IF ok THEN CloseAllEngineOk(c, i) ELSE CloseAllEngineFail(c, i)

\* WorkflowManager.removeSite(siteId), synchronous: the config is deleted; a
\* cached workflow has its close() started, not awaited, and is deleted from
\* the cache at once.
WmRemoveSite(siteId) ==
  /\ WmQuiet
  /\ configs' = [configs EXCEPT ![siteId] = NoConfig]
  /\ IF wfs[siteId].exists
       THEN /\ wfs' = [wfs EXCEPT ![siteId] = Evicted(@)]
            /\ IF wfs[siteId].browser # 0
                 THEN nCalls < MaxCalls /\ close(nCalls + 1, siteId)
                 ELSE UNCHANGED mgrVars
       ELSE UNCHANGED <<mgrVars, wfs>>
  /\ login' = WmReturned("removeSite", siteId)
  /\ UNCHANGED <<webVars, storeVars, now, registry>>
  /\ events' = Silent

\* The SiteConfig the sites are added with: no session name given.
WmSiteConfig == [exists |-> TRUE, given |-> FALSE, sessionName |-> NoName]

\* WmAddSite with the cached workflow given the new configuration.
WmAddSiteRefreshes(siteId, cfg) ==
  /\ WmQuiet
  /\ \A n \in Names \ {siteId} : ~configs[n].exists /\ ~wfs[n].exists
  /\ configs' = [configs EXCEPT ![siteId] = cfg]
  /\ wfs' = IF wfs[siteId].exists
              THEN [wfs EXCEPT ![siteId].sessionName =
                      IF cfg.given THEN cfg.sessionName
                      ELSE DefaultSessionName(siteId)]
              ELSE wfs
  /\ UNCHANGED <<mgrVars, webVars, storeVars, now, registry, login>>
  /\ events' = Silent

\* WorkflowManager.addSite when no call is suspended; one site id is
\* configured in a behaviour.
WmAddSite(siteId, cfg) ==
  /\ WmQuiet
  /\ \A n \in Names \ {siteId} : ~configs[n].exists /\ ~wfs[n].exists
  /\ configs' = [configs EXCEPT ![siteId] = cfg]
  /\ UNCHANGED <<mgrVars, webVars, storeVars, now, registry, wfs, login>>
  /\ events' = Silent

\* The type tags registered: one the site id contains, one it does not.
WmTags == {<<"a">>, <<"c">>}

\* WorkflowManager.register when no call is suspended.
WmRegister(t) ==
  /\ WmQuiet
  /\ registry' = IF \E k \in DOMAIN registry : registry[k] = t THEN registry
                 ELSE Append(registry, t)
  /\ UNCHANGED <<mgrVars, webVars, storeVars, now, configs, wfs, login>>
  /\ events' = Silent

\* getBrowserManager().create({name}) by the caller, on the shared manager,
\* before the WorkflowManager is given anything to do.
WmMgrCreate(c, n) ==
  /\ login.pc = "idle" /\ nCalls = 0
  /\ c \in Calls
  /\ CreateStart(c, n)

\* The site ids the WorkflowManager is called with.
WmSites == {<<"a", ".", "b">>}

NextWm ==
  \/ \E t \in WmTags : WmRegister(t)
  \/ \E siteId \in WmSites : WmAddSite(siteId, WmSiteConfig)
  \/ \E siteId \in WmSites : WmRemoveSite(siteId)
  \/ \E siteId \in WmSites : WmGetWorkflow("getWorkflow", siteId)
  \/ \E siteId \in WmSites : WmInit(siteId)
  \/ \E c \in Calls : LaunchBrowserOk(c)
  \/ \E c \in Calls : LaunchBrowserFail(c)
  \/ \E c \in Calls : LaunchContextOk(c)
  \/ WfCreated
  \/ WfInitLoadSession
  \/ \E arrived \in BOOLEAN : WfInitGoto(arrived)
  \/ \E siteId \in WmSites : WmClose(siteId)
  \/ \E ok \in BOOLEAN : WmCloseDone(ok)
  \/ WmCloseAll
  \/ \E i \in Insts, ok \in BOOLEAN : WmCloseAllDone(i, ok)
  \/ \E c \in Calls, i \in Insts, ok \in BOOLEAN : WmLateClose(c, i, ok)
  \/ \E c \in Calls, n \in WmSites : WmMgrCreate(c, n)

SpecWm == Init /\ [][NextWm]_vars

\* ------------------------------------------- BrowserInstance used directly

\* new BrowserInstance(config) by a caller: the object exists, not launched.
\* Instances share no state, so one is followed.
InstNew(n) ==
  /\ nextInst = 1
  /\ iname' = [iname EXCEPT ![nextInst] = n]
  /\ nextInst' = nextInst + 1
  /\ UNCHANGED <<instances, status, browser, context, pages, engine, pageCtr,
                 calls, nCalls>>
  /\ UNCHANGED restVars
  /\ events' = Silent

\* The instance objects constructed so far.
Constructed == {i \in Insts : i < nextInst}

\* InstLaunchStart with the status set to error when the handle is set.
InstLaunchStartSetsError(c, i) ==
  /\ Issue(c)
  /\ i \in Constructed
  /\ IF browser[i]
       THEN /\ calls' = [calls EXCEPT ![c] =
                 [IdleCall EXCEPT !.op = "launch", !.inst = i, !.pc = "done",
                                  !.res = "already_launched"]]
            /\ status' = [status EXCEPT ![i] = "error"]
       ELSE /\ calls' = [calls EXCEPT ![c] =
                 [IdleCall EXCEPT !.op = "launch", !.inst = i, !.pc = "launch"]]
            /\ status' = [status EXCEPT ![i] = "launching"]
  /\ UNCHANGED <<instances, iname, browser, context, pages, engine, nextInst,
                 pageCtr>>
  /\ UNCHANGED restVars
  /\ events' = Silent

\* InstLaunchStart without the already-launched check.
InstLaunchStartAlwaysRestarts(c, i) ==
  /\ Issue(c)
  /\ i \in Constructed
  /\ calls' = [calls EXCEPT ![c] =
       [IdleCall EXCEPT !.op = "launch", !.inst = i, !.pc = "launch"]]
  /\ status' = [status EXCEPT ![i] = "launching"]
  /\ UNCHANGED <<instances, iname, browser, context, pages, engine, nextInst,
                 pageCtr>>
  /\ UNCHANGED restVars
  /\ events' = Silent

\* instance.launch() up to `await chromium.launch`: the throw when the handle
\* is set stands before the try block, so nothing is assigned on that path.
InstLaunchStart(c, i) ==
  /\ Issue(c)
  /\ i \in Constructed
  /\ IF browser[i]
       THEN /\ calls' = [calls EXCEPT ![c] =
                 [IdleCall EXCEPT !.op = "launch", !.inst = i, !.pc = "done",
                                  !.res = "already_launched"]]
            /\ UNCHANGED status
       ELSE /\ calls' = [calls EXCEPT ![c] =
                 [IdleCall EXCEPT !.op = "launch", !.inst = i, !.pc = "launch"]]
            /\ status' = [status EXCEPT ![i] = "launching"]
  /\ UNCHANGED <<instances, iname, browser, context, pages, engine, nextInst,
                 pageCtr>>
  /\ UNCHANGED restVars
  /\ events' = Silent

\* chromium.launch resolved for instance.launch().
InstLaunchBrowserOk(c) ==
  /\ calls[c].op = "launch" /\ calls[c].pc = "launch"
  /\ browser' = [browser EXCEPT ![calls[c].inst] = TRUE]
  /\ engine' = [engine EXCEPT ![calls[c].inst] = "up"]
  /\ calls' = [calls EXCEPT ![c].pc = "context"]
  /\ UNCHANGED <<instances, iname, status, context, pages, nextInst, pageCtr,
                 nCalls>>
  /\ UNCHANGED restVars
  /\ events' = Silent

\* chromium.launch threw for instance.launch(): the handle stays null.
InstLaunchBrowserFail(c) ==
  /\ calls[c].op = "launch" /\ calls[c].pc = "launch"
  /\ status' = [status EXCEPT ![calls[c].inst] = "error"]
  /\ calls' = [calls EXCEPT ![c].pc = "done", ![c].res = "launch_failed"]
  /\ UNCHANGED <<instances, iname, browser, context, pages, engine, nextInst,
                 pageCtr, nCalls>>
  /\ UNCHANGED restVars
  /\ events' = Silent

\* browser.newContext resolved for instance.launch(): ready.
InstLaunchContextOk(c) ==
  /\ calls[c].op = "launch" /\ calls[c].pc = "context"
  /\ context' = [context EXCEPT ![calls[c].inst] = TRUE]
  /\ status' = [status EXCEPT ![calls[c].inst] = "ready"]
  /\ calls' = [calls EXCEPT ![c].pc = "done", ![c].res = "ok"]
  /\ UNCHANGED <<instances, iname, browser, pages, engine, nextInst, pageCtr,
                 nCalls>>
  /\ UNCHANGED restVars
  /\ events' = Silent

\* browser.newContext threw for instance.launch(): the handle stays set.
InstLaunchContextFail(c) ==
  /\ calls[c].op = "launch" /\ calls[c].pc = "context"
  /\ status' = [status EXCEPT ![calls[c].inst] = "error"]
  /\ calls' = [calls EXCEPT ![c].pc = "done", ![c].res = "launch_failed"]
  /\ UNCHANGED <<instances, iname, browser, context, pages, engine, nextInst,
                 pageCtr, nCalls>>
  /\ UNCHANGED restVars
  /\ events' = Silent

\* InstCloseStart with the engine's close awaited whatever the handle is.
InstCloseStartAlwaysCloses(c, i) ==
  /\ Issue(c)
  /\ i \in Constructed
  /\ calls' = [calls EXCEPT ![c] =
       [IdleCall EXCEPT !.op = "iclose", !.inst = i, !.pc = "closing",
                        !.pend = {i}]]
  /\ UNCHANGED <<instances, iname, status, browser, context, pages, engine,
                 nextInst, pageCtr>>
  /\ UNCHANGED restVars
  /\ events' = Silent

\* instance.close() up to `await this.browser.close()`; without a handle the
\* call returns at once and assigns nothing.
InstCloseStart(c, i) ==
  /\ Issue(c)
  /\ i \in Constructed
  /\ calls' = [calls EXCEPT ![c] =
       IF browser[i]
         THEN [IdleCall EXCEPT !.op = "iclose", !.inst = i, !.pc = "closing",
                               !.pend = {i}]
         ELSE [IdleCall EXCEPT !.op = "iclose", !.inst = i, !.pc = "done",
                               !.res = "ok"]]
  /\ UNCHANGED <<instances, iname, status, browser, context, pages, engine,
                 nextInst, pageCtr>>
  /\ UNCHANGED restVars
  /\ events' = Silent

\* The engine's close resolved for instance.close(): the fields are reset.
InstCloseOk(c) ==
  /\ calls[c].op = "iclose" /\ calls[c].pc = "closing"
  /\ InstanceClosed(calls[c].inst)
  /\ calls' = [calls EXCEPT ![c].pc = "done", ![c].res = "ok", ![c].pend = {}]
  /\ UNCHANGED <<instances, iname, nextInst, pageCtr, nCalls>>
  /\ UNCHANGED restVars
  /\ events' = Silent

\* The engine's close threw for instance.close(): nothing is reset.
InstCloseFail(c) ==
  /\ calls[c].op = "iclose" /\ calls[c].pc = "closing"
  /\ calls' = [calls EXCEPT ![c].pc = "done", ![c].res = "close_failed",
                            ![c].pend = {}, ![c].threw = {calls[c].inst}]
  /\ UNCHANGED <<instances, iname, status, browser, context, pages, engine,
                 nextInst, pageCtr, nCalls>>
  /\ UNCHANGED restVars
  /\ events' = Silent

\* InstNewPage with the new page recorded before the others.
InstNewPagePrepends(c, i) ==
  /\ Issue(c)
  /\ i \in Constructed
  /\ context[i] => pageCtr < MaxPages
  /\ calls' = [calls EXCEPT ![c] =
       [IdleCall EXCEPT !.op = "newPage", !.inst = i, !.pc = "done",
                        !.res = IF context[i] THEN "ok" ELSE "not_launched"]]
  /\ pageCtr' = IF context[i] THEN pageCtr + 1 ELSE pageCtr
  /\ pages' = IF context[i] THEN [pages EXCEPT ![i] = <<pageCtr + 1>> \o @]
              ELSE pages
  /\ events' = Heard(IF context[i] THEN Emit(i, "page:created")
                      ELSE NoEvents)
  /\ UNCHANGED <<instances, iname, status, browser, context, engine, nextInst>>
  /\ UNCHANGED restVars

\* instance.newPage(): throws without a context, else the engine opens a page
\* and the 'page' listener records it.
InstNewPage(c, i) ==
  /\ Issue(c)
  /\ i \in Constructed
  /\ context[i] => pageCtr < MaxPages
  /\ calls' = [calls EXCEPT ![c] =
       [IdleCall EXCEPT !.op = "newPage", !.inst = i, !.pc = "done",
                        !.res = IF context[i] THEN "ok" ELSE "not_launched"]]
  /\ pageCtr' = IF context[i] THEN pageCtr + 1 ELSE pageCtr
  /\ pages' = IF context[i] THEN [pages EXCEPT ![i] = Append(@, pageCtr + 1)]
              ELSE pages
  /\ events' = Heard(IF context[i] THEN Emit(i, "page:created")
                      ELSE NoEvents)
  /\ UNCHANGED <<instances, iname, status, browser, context, engine, nextInst>>
  /\ UNCHANGED restVars

\* InstGoto with the status set to error when the navigation throws.
InstGotoFailSetsError(c, i, arrived) ==
  /\ Issue(c)
  /\ i \in Constructed
  /\ goto(i, BaseUrl, arrived)
  /\ calls' = [calls EXCEPT ![c] =
       [IdleCall EXCEPT !.op = "goto", !.inst = i, !.pc = "done",
                        !.res = IF arrived THEN "ok"
                                ELSE IF getCurrentPage(i) = 0 /\ ~context[i]
                                  THEN "not_launched"
                                ELSE "navigation_failed"]]
  /\ status' = IF arrived THEN status ELSE [status EXCEPT ![i] = "error"]
  /\ UNCHANGED <<instances, iname, browser, context, engine, nextInst>>
  /\ UNCHANGED <<storeVars, wfVars>>

\* instance.goto(url): the current page or a new one (newPage throws without
\* a context), then page.goto; an error of either is the caller's, and the
\* method assigns no field.
InstGoto(c, i, arrived) ==
  /\ Issue(c)
  /\ i \in Constructed
  /\ goto(i, BaseUrl, arrived)
  /\ calls' = [calls EXCEPT ![c] =
       [IdleCall EXCEPT !.op = "goto", !.inst = i, !.pc = "done",
                        !.res = IF arrived THEN "ok"
                                ELSE IF getCurrentPage(i) = 0 /\ ~context[i]
                                  THEN "not_launched"
                                ELSE "navigation_failed"]]
  /\ UNCHANGED <<instances, iname, status, browser, context, engine, nextInst>>
  /\ UNCHANGED <<storeVars, wfVars>>

NextInstance ==
  \/ \E n \in Names : InstNew(n)
  \/ \E c \in Calls, i \in Insts : InstLaunchStart(c, i)
  \/ \E c \in Calls : InstLaunchBrowserOk(c)
  \/ \E c \in Calls : InstLaunchBrowserFail(c)
  \/ \E c \in Calls : InstLaunchContextOk(c)
  \/ \E c \in Calls : InstLaunchContextFail(c)
  \/ \E c \in Calls, i \in Insts : InstCloseStart(c, i)
  \/ \E c \in Calls : InstCloseOk(c)
  \/ \E c \in Calls : InstCloseFail(c)
  \/ \E c \in Calls, i \in Insts : InstNewPage(c, i)
  \/ \E c \in Calls, i \in Insts, arrived \in BOOLEAN :
       InstGoto(c, i, arrived)
  \/ \E i \in Insts, k \in 1..MaxPages : PageClosed(i, k)

SpecInstance == Init /\ [][NextInstance]_vars

\* --------------------------------------------- the manager's session calls

\* The session names used: two that sanitise to the same file name and one
\* that does not.
StoreNames == {<<"a", "/", "b">>, <<"a", "_", "b">>, <<"c">>}

\* The instance name used: a closed instance's name is free again, so one name
\* gives several instances one after the other.
StNames == {<<"a">>}

\* The session name the manager's calls are made with.
StSessions == {<<"a", "/", "b">>}

\* No call is running: the calls of this part are made one after the other.
StIdle ==
  /\ last.res # "pending"
  /\ \A c \in Calls : calls[c].pc \in {"idle", "done"}

\* manager.create(config)
StCreate(c, n) ==
  /\ StIdle
  /\ CreateStart(c, n)

\* manager.close(name)
StClose(c, n) ==
  /\ StIdle
  /\ CloseStart(c, n)

\* manager.get(name).close(): the instance is closed and stays registered.
StInstClose(c, n) ==
  /\ StIdle
  /\ has(n)
  /\ InstCloseStart(c, instances[n])

\* BrowserManager.createWithSession up to the suspension inside create.
StCws(n, sn) ==
  /\ StIdle
  /\ nCalls < MaxCalls
  /\ create(nCalls + 1, n)
  /\ last' = [op |-> "createWithSession", site |-> n, sn |-> sn,
              res |-> IF has(n) THEN "duplicate" ELSE "pending"]
  /\ UNCHANGED <<webVars, files, wfVars>>
  /\ events' = Silent

\* StCwsDone with a missing session raised as an error.
StCwsDoneMissingFails ==
  /\ last.op = "createWithSession" /\ last.res = "pending"
  /\ calls[nCalls].pc = "done"
  /\ last' = [last EXCEPT !.res = IF calls[nCalls].res # "ok"
                                    THEN calls[nCalls].res
                                    ELSE IF load(last.sn) = Null
                                      THEN "session_not_found" ELSE "ok"]
  /\ IF calls[nCalls].res = "ok" /\ load(last.sn) # Null
       THEN injectSession(calls[nCalls].inst, load(last.sn))
       ELSE /\ UNCHANGED <<cookies, pages, pageCtr, purl, lstore, sstore>>
            /\ events' = Silent
  /\ UNCHANGED <<instances, iname, status, browser, context, engine, nextInst,
                 calls, nCalls, files, wfVars>>

\* BrowserManager.createWithSession after create settled: a failure of create
\* propagates; else the session is loaded and, when there is one, injected.
StCwsDone ==
  /\ last.op = "createWithSession" /\ last.res = "pending"
  /\ calls[nCalls].pc = "done"
  /\ last' = [last EXCEPT !.res = calls[nCalls].res]
  /\ IF calls[nCalls].res = "ok" /\ load(last.sn) # Null
       THEN injectSession(calls[nCalls].inst, load(last.sn))
       ELSE /\ UNCHANGED <<cookies, pages, pageCtr, purl, lstore, sstore>>
            /\ events' = Silent
  /\ UNCHANGED <<instances, iname, status, browser, context, engine, nextInst,
                 calls, nCalls, files, wfVars>>

\* StSave with a record written for a name that is not registered.
StSaveWithoutLookup(bn, sn) ==
  /\ StIdle
  /\ files' = SessionSaved(files,
       IF has(bn)
         THEN [name |-> sn, createdAt |-> now, updatedAt |-> now]
                @@ extractSession(instances[bn])
         ELSE [name |-> sn, createdAt |-> now, updatedAt |-> now,
               browserName |-> bn, cookies |-> NoMap, localStorage |-> NoMap,
               sessionStorage |-> NoMap, url |-> ""])
  /\ last' = [op |-> "save", site |-> bn, sn |-> sn, res |-> "ok"]
  /\ UNCHANGED <<mgrVars, webVars, wfVars>>
  /\ events' = Silent

\* BrowserManager.saveSession
StSave(bn, sn) ==
  /\ StIdle
  /\ MgrSaveSession(bn, sn)
  /\ last' = [op |-> "save", site |-> bn, sn |-> sn, res |-> MgrSaveResult(bn)]
  /\ UNCHANGED <<mgrVars, webVars, wfVars>>
  /\ events' = Silent

\* StLoad with a missing session ignored.
StLoadIgnoresMissing(bn, sn) ==
  /\ StIdle
  /\ MgrLoadSession(bn, sn)
  /\ last' = [op |-> "load", site |-> bn, sn |-> sn,
              res |-> IF MgrLoadResult(bn, sn) = "session_not_found" THEN "ok"
                      ELSE MgrLoadResult(bn, sn)]
  /\ UNCHANGED <<instances, iname, status, browser, context, engine, nextInst,
                 calls, nCalls, files, wfVars>>

\* BrowserManager.loadSession
StLoad(bn, sn) ==
  /\ StIdle
  /\ MgrLoadSession(bn, sn)
  /\ last' = [op |-> "load", site |-> bn, sn |-> sn,
              res |-> MgrLoadResult(bn, sn)]
  /\ UNCHANGED <<instances, iname, status, browser, context, engine, nextInst,
                 calls, nCalls, files, wfVars>>

\* BrowserManager.deleteSession
StDelete(sn) ==
  /\ StIdle
  /\ files' = SessionDeleted(files, sn)
  /\ last' = [op |-> "delete", site |-> NoName, sn |-> sn, res |-> "ok"]
  /\ UNCHANGED <<mgrVars, webVars, wfVars>>
  /\ events' = Silent

\* StSmLoad with a file that cannot be parsed raised as an error.
StSmLoadThrows(sn) ==
  /\ StIdle
  /\ last' = [op |-> "smLoad", site |-> NoName, sn |-> sn,
              res |-> IF ~SessionExists(sn) THEN "null"
                      ELSE IF SessionLoad(sn) = Corrupt THEN "raised"
                      ELSE "record",
              val |-> load(sn)]
  /\ UNCHANGED <<mgrVars, webVars, files, wfVars>>
  /\ events' = Silent

\* SessionManager.load, called for its result.
StSmLoad(sn) ==
  /\ StIdle
  /\ last' = [op |-> "smLoad", site |-> NoName, sn |-> sn,
              res |-> IF load(sn) = Null THEN "null" ELSE "record",
              val |-> load(sn)]
  /\ UNCHANGED <<mgrVars, webVars, files, wfVars>>
  /\ events' = Silent

\* Something outside the program leaves a session file that is not JSON.
Tamper(sn) ==
  /\ StIdle
  /\ SessionExists(sn)
  /\ files' = [files EXCEPT ![getSessionPath(sn)] = Corrupt]
  /\ last' = [op |-> "tamper", site |-> NoName, sn |-> sn, res |-> "none"]
  /\ UNCHANGED <<mgrVars, webVars, wfVars>>
  /\ events' = Silent

\* manager.get(name).goto(baseUrl)
StGoto(n) ==
  /\ StIdle
  /\ has(n) /\ context[instances[n]]
  /\ goto(instances[n], BaseUrl, TRUE)
  /\ UNCHANGED <<instances, iname, status, browser, context, engine, nextInst,
                 calls, nCalls, storeVars, wfVars>>

\* The user logs in on a registered instance's page.
StUserLogsIn(n) ==
  /\ StIdle
  /\ has(n)
  /\ UserLogsIn(instances[n])

\* The user closes the current page of a registered instance.
StPageClosed(n) ==
  /\ StIdle
  /\ has(n)
  /\ PageClosed(instances[n], Len(pages[instances[n]]))

NextStore ==
  \/ \E c \in Calls, n \in StNames : StCreate(c, n)
  \/ \E c \in Calls : LaunchBrowserOk(c)
  \/ \E c \in Calls : LaunchBrowserFail(c)
  \/ \E c \in Calls : LaunchContextOk(c)
  \/ \E c \in Calls, n \in StNames : StClose(c, n)
  \/ \E c \in Calls : CloseEngineOk(c)
  \/ \E c \in Calls, n \in StNames : StInstClose(c, n)
  \/ \E c \in Calls : InstCloseOk(c)
  \/ \E n \in StNames, sn \in StSessions : StCws(n, sn)
  \/ StCwsDone
  \/ \E bn \in StNames, sn \in StSessions : StSave(bn, sn)
  \/ \E bn \in StNames, sn \in StSessions : StLoad(bn, sn)
  \/ \E sn \in StSessions : Tamper(sn)
  \/ \E n \in StNames : StGoto(n)
  \/ \E n \in StNames : StUserLogsIn(n)
  \/ \E n \in StNames : StPageClosed(n)

SpecStore == Init /\ [][NextStore]_vars

\* ------------------------------------------------ the SessionManager alone

\* The records given to SessionManager.save: every session name, with and
\* without a cookie.
SmRecords ==
  {[name |-> sn, browserName |-> <<"a">>, cookies |-> ck,
    localStorage |-> NoMap, sessionStorage |-> NoMap, url |-> BaseUrl,
    createdAt |-> 0, updatedAt |-> 0] :
     sn \in StoreNames, ck \in {NoMap, [k \in {"sid"} |-> "u1"]}}

\* SessionManager.save(record)
StSmSave(rec) ==
  /\ StIdle
  /\ files' = SessionSaved(files, rec)
  /\ last' = [op |-> "smSave", site |-> NoName, sn |-> rec.name, res |-> "ok",
              val |-> rec]
  /\ UNCHANGED <<mgrVars, webVars, wfVars>>
  /\ events' = Silent

NextFiles ==
  \/ \E rec \in SmRecords : StSmSave(rec)
  \/ \E sn \in StoreNames : StSmLoad(sn)
  \/ \E sn \in StoreNames : StDelete(sn)
  \/ \E sn \in StoreNames : Tamper(sn)

SpecFiles == Init /\ [][NextFiles]_vars

\* ----------------------------- SessionManager.save and delete, interleaved

\* The names the racing calls use: both sanitise to the same file name.
RaceNames == {<<"a", "/", "b">>, <<"a", "_", "b">>}

\* The record call c saves: each call brings its own record.
RaceRecord(c, sn) ==
  [name |-> sn, browserName |-> <<"a">>, cookies |-> NoMap,
   localStorage |-> NoMap, sessionStorage |-> NoMap, url |-> BaseUrl,
   createdAt |-> c, updatedAt |-> c]

\* The save calls that have not returned yet.
SavesInFlight ==
  {d \in Calls : calls[d].op = "smSave" /\ calls[d].pc # "done"}

\* SessionManager.save up to `await writeFile`: the path and the serialised
\* record are fixed. The saves themselves are made one after the other.
RaceSaveStart(c, sn) ==
  /\ Issue(c)
  /\ SavesInFlight = {}
  /\ calls' = [calls EXCEPT ![c] =
       [IdleCall EXCEPT !.op = "smSave", !.arg = sn, !.pc = "open"]]
  /\ UNCHANGED <<instances, iname, status, browser, context, pages, engine,
                 nextInst, pageCtr>>
  /\ UNCHANGED restVars
  /\ events' = Silent

\* writeFile opens the file for writing: the entry is created, or the
\* existing file is truncated; it is empty until the data is written.
RaceSaveOpen(c) ==
  /\ calls[c].op = "smSave" /\ calls[c].pc = "open"
  /\ files' = [f \in DOMAIN files \cup {getSessionPath(calls[c].arg)} |->
                 IF f = getSessionPath(calls[c].arg) THEN Corrupt ELSE files[f]]
  /\ calls' = [calls EXCEPT ![c].pc = "write"]
  /\ UNCHANGED <<instances, iname, status, browser, context, pages, engine,
                 nextInst, pageCtr, nCalls>>
  /\ UNCHANGED <<webVars, last, wfVars>>
  /\ events' = Silent

\* RaceSaveWrite with the data left unwritten.
RaceSaveWritePartial(c) ==
  /\ calls[c].op = "smSave" /\ calls[c].pc = "write"
  /\ calls' = [calls EXCEPT ![c].pc = "done", ![c].res = "ok"]
  /\ UNCHANGED <<instances, iname, status, browser, context, pages, engine,
                 nextInst, pageCtr, nCalls>>
  /\ UNCHANGED restVars
  /\ events' = Silent

\* writeFile writes the data through the descriptor it opened and closes it:
\* when the entry was unlinked meanwhile the data goes to a file no name
\* refers to. save returns.
RaceSaveWrite(c) ==
  LET f == getSessionPath(calls[c].arg)
      rec == RaceRecord(c, calls[c].arg)
  IN
    /\ calls[c].op = "smSave" /\ calls[c].pc = "write"
    /\ files' = IF f \in DOMAIN files THEN [files EXCEPT ![f] = rec] ELSE files
    /\ last' = IF f \in DOMAIN files
                 THEN [op |-> "smSave", site |-> NoName, sn |-> calls[c].arg,
                       res |-> "ok", val |-> rec]
                 ELSE last
    /\ calls' = [calls EXCEPT ![c].pc = "done", ![c].res = "ok"]
    /\ UNCHANGED <<instances, iname, status, browser, context, pages, engine,
                   nextInst, pageCtr, nCalls>>
    /\ UNCHANGED <<webVars, wfVars>>
    /\ events' = Silent

\* SessionManager.delete up to `await unlink`: existsSync decides at once
\* whether there is anything to unlink.
RaceDeleteStart(c, sn) ==
  /\ Issue(c)
  /\ calls' = [calls EXCEPT ![c] =
       IF SessionExists(sn)
         THEN [IdleCall EXCEPT !.op = "smDelete", !.arg = sn, !.pc = "unlink",
                               !.overl = SavesInFlight]
         ELSE [IdleCall EXCEPT !.op = "smDelete", !.arg = sn, !.pc = "done",
                               !.res = "ok", !.overl = SavesInFlight]]
  /\ UNCHANGED <<instances, iname, status, browser, context, pages, engine,
                 nextInst, pageCtr>>
  /\ UNCHANGED restVars
  /\ events' = Silent

\* unlink settles: the entry is removed, or unlink throws because another
\* delete removed it first.
RaceDeleteUnlink(c) ==
  /\ calls[c].op = "smDelete" /\ calls[c].pc = "unlink"
  /\ files' = SessionDeleted(files, calls[c].arg)
  /\ last' = IF SessionExists(calls[c].arg)
               THEN [op |-> "delete", site |-> NoName, sn |-> calls[c].arg,
                     res |-> "ok"]
               ELSE last
  /\ calls' = [calls EXCEPT ![c].pc = "done",
                            ![c].res = IF SessionExists(calls[c].arg)
                                         THEN "ok" ELSE "enoent"]
  /\ UNCHANGED <<instances, iname, status, browser, context, pages, engine,
                 nextInst, pageCtr, nCalls>>
  /\ UNCHANGED <<webVars, wfVars>>
  /\ events' = Silent

NextRace ==
  \/ \E c \in Calls, sn \in RaceNames : RaceSaveStart(c, sn)
  \/ \E c \in Calls : RaceSaveOpen(c)
  \/ \E c \in Calls : RaceSaveWrite(c)
  \/ \E c \in Calls, sn \in RaceNames : RaceDeleteStart(c, sn)
  \/ \E c \in Calls : RaceDeleteUnlink(c)

SpecRace == Init /\ [][NextRace]_vars

\* ------------------------------------------------- the manager's event relay

\* A caller that holds instance i (create returned it, or its launch is
\* still awaited) navigates it: instance.goto(BaseUrl).
CallerGoto(i, arrived) ==
  /\ i \in Constructed
  /\ goto(i, BaseUrl, arrived)
  /\ UNCHANGED <<instances, iname, status, browser, context, engine, nextInst,
                 calls, nCalls>>
  /\ UNCHANGED <<storeVars, wfVars>>

\* An observer has attached its listeners to the manager and the instances.
InitListening ==
  MgrInit /\ WebInit /\ StoreInit /\ WfInit /\ events = Listening

\* The name the callers use: creates for one name overlap.
EvNames == {<<"a">>}

\* Instances created through the manager, their pages opened, navigated and
\* closed by the callers that hold them.
NextEvents ==
  \/ \E c \in Calls, n \in EvNames : CreateStart(c, n)
  \/ \E c \in Calls : LaunchBrowserOk(c)
  \/ \E c \in Calls : LaunchContextOk(c)
  \/ \E i \in Insts : NewPage(i)
  \/ \E i \in Insts, k \in 1..MaxPages : PageClosed(i, k)
  \/ \E i \in Insts, arrived \in BOOLEAN : CallerGoto(i, arrived)

SpecEvents == InitListening /\ [][NextEvents]_vars

\* --------------------------------------------- injectSession, await by await

\* The awaits of injectSession in the order of the code, with the storage
\* written before the navigation.
InjStagesStorageFirst ==
  <<"cookies", "page", "local", "session", "goto", "reload">>

\* The awaits of injectSession in the order of the code: context.addCookies,
\* this.newPage, page.goto, the two page.evaluate, page.reload.
InjStages == <<"cookies", "page", "goto", "local", "session", "reload">>

\* The condition under which injectSession performs an await: cookies only
\* when the list is non-empty, a new page only without a current one, the
\* navigation only with a non-empty url, each storage only when it has keys;
\* the reload always.
StageNeeded(st, i, rec) ==
  CASE st = "cookies" -> DOMAIN rec.cookies # {}
    [] st = "page" -> getCurrentPage(i) = 0
    [] st = "goto" -> rec.url # ""
    [] st = "local" -> DOMAIN rec.localStorage # {}
    [] st = "session" -> DOMAIN rec.sessionStorage # {}
    [] st = "reload" -> TRUE

\* The position of an await in the method, 0 for its entry.
StageIndex(st) ==
  IF st = "start" THEN 0 ELSE CHOOSE k \in DOMAIN InjStages : InjStages[k] = st

\* The next await the method reaches after st, "done" when it returns.
NextStage(st, i, rec) ==
  LET later == {k \in DOMAIN InjStages :
                  k > StageIndex(st) /\ StageNeeded(InjStages[k], i, rec)}
  IN IF later = {} THEN "done"
     ELSE InjStages[CHOOSE k \in later : \A j \in later : k <= j]

\* An injectSession call of instance i: the record, the await it is at, its
\* local variable page (0 before it is assigned or for null), and the awaits
\* that have resolved.
InjectCall(i, rec, pc, res, page) ==
  [IdleCall EXCEPT !.op = "injectSession", !.inst = i, !.pc = pc, !.res = res]
  @@ [rec |-> rec, page |-> page, did |-> {}]

\* instance.injectSession(rec) up to its first await: it throws without a
\* context.  `let page = this.getCurrentPage()` runs once the cookies are in.
\* Calls share nothing but the pages, which open and close on their own
\* below, so one call is followed.
InjectStart(c, i, rec) ==
  /\ Issue(c)
  /\ i \in Constructed
  /\ nCalls = 0
  /\ calls' = [calls EXCEPT ![c] =
       IF ~context[i]
         THEN InjectCall(i, rec, "done", "not_launched", 0)
         ELSE InjectCall(i, rec, NextStage("start", i, rec), "pending",
                         IF NextStage("start", i, rec) = "cookies" THEN 0
                         ELSE getCurrentPage(i))]
  /\ UNCHANGED <<instances, iname, status, browser, context, pages, engine,
                 nextInst, pageCtr>>
  /\ UNCHANGED restVars
  /\ events' = Silent

\* Page p is open in instance i.
PageOpen(i, p) == \E k \in DOMAIN pages[i] : pages[i][k] = p

\* The await an injectSession call is at settles.  When it throws (ok false)
\* the method ends there.  When it resolves, its effect is there and the
\* method runs on to its next await, or to its end, where it emits
\* session:loaded.  An operation on a page that was closed meanwhile throws.
InjectStep(c, ok) ==
  LET st == calls[c].pc
      i == calls[c].inst
      rec == calls[c].rec
      pg == calls[c].page
      nxt == NextStage(st, i, rec)
  IN
    /\ calls[c].op = "injectSession" /\ st # "done"
    /\ (ok /\ st = "page") => pageCtr < MaxPages
    /\ (ok /\ st \in {"goto", "local", "session", "reload"}) => PageOpen(i, pg)
    /\ IF ~ok
         THEN /\ calls' = [calls EXCEPT ![c].pc = "done", ![c].res = "failed"]
              /\ UNCHANGED <<cookies, pages, pageCtr, purl, lstore, sstore>>
              /\ events' = Silent
         ELSE /\ calls' = [calls EXCEPT
                   ![c].pc = nxt,
                   ![c].res = IF nxt = "done" THEN "ok" ELSE "pending",
                   ![c].did = @ \cup {st},
                   ![c].page = IF st = "page" THEN pageCtr + 1
                               ELSE IF st = "cookies" THEN getCurrentPage(i)
                               ELSE @]
              /\ cookies' = IF st = "cookies"
                              THEN [cookies EXCEPT ![i] = Merge(@, rec.cookies)]
                              ELSE cookies
              /\ pages' = IF st = "page"
                            THEN [pages EXCEPT ![i] = Append(@, pageCtr + 1)]
                            ELSE pages
              /\ pageCtr' = IF st = "page" THEN pageCtr + 1 ELSE pageCtr
              /\ purl' = IF st = "goto" THEN [purl EXCEPT ![pg] = rec.url]
                         ELSE purl
              /\ lstore' = IF st = "local"
                             THEN [lstore EXCEPT ![i][Origin(purl[pg])] =
                                     Merge(@, rec.localStorage)]
                             ELSE lstore
              /\ sstore' = IF st = "session"
                             THEN [sstore EXCEPT ![pg][Origin(purl[pg])] =
                                     Merge(@, rec.sessionStorage)]
                             ELSE sstore
              /\ events' = Heard(IF st = "page" THEN Emit(i, "page:created")
                                 ELSE IF nxt = "done"
                                   THEN Emit(i, "session:loaded")
                                 ELSE NoEvents)
    /\ UNCHANGED <<instances, iname, status, browser, context, engine,
                   nextInst, nCalls>>
    /\ UNCHANGED <<storeVars, wfVars>>

\* A saved record with the given parts.
InjRecord(ck, ls, ss, u) ==
  [name |-> <<"a">>, browserName |-> <<"a">>, cookies |-> ck,
   localStorage |-> ls, sessionStorage |-> ss, url |-> u,
   createdAt |-> 0, updatedAt |-> 0]

\* The records injected: every part is present in two and absent in two.
InjRecords ==
  {InjRecord([k \in {"sid"} |-> "u1"], [k \in {"tok"} |-> "t1"],
             [k \in {"tab"} |-> "s1"], BaseUrl),
   InjRecord(NoMap, NoMap, NoMap, ""),
   InjRecord(NoMap, [k \in {"tok"} |-> "t1"], NoMap, BaseUrl),
   InjRecord([k \in {"sid"} |-> "u1"], NoMap, [k \in {"tab"} |-> "s1"], "")}

\* A caller has constructed one instance and, in one of the two initial
\* states, launched it; an observer listens.
InitInject ==
  /\ instances = [n \in Names |-> 0]
  /\ iname = [i \in Insts |-> IF i = 1 THEN <<"a">> ELSE NoName]
  /\ \E up \in BOOLEAN :
       /\ status = [i \in Insts |-> IF i = 1 /\ up THEN "ready" ELSE "closed"]
       /\ browser = [i \in Insts |-> i = 1 /\ up]
       /\ context = [i \in Insts |-> i = 1 /\ up]
       /\ engine = [i \in Insts |-> IF i = 1 /\ up THEN "up" ELSE "none"]
  /\ pages = [i \in Insts |-> <<>>]
  /\ nextInst = 2
  /\ pageCtr = 0
  /\ calls = [c \in Calls |-> IdleCall]
  /\ nCalls = 0
  /\ WebInit /\ StoreInit /\ WfInit
  /\ events = Listening

NextInject ==
  \/ \E c \in Calls, i \in Insts, rec \in InjRecords : InjectStart(c, i, rec)
  \/ \E c \in Calls, ok \in BOOLEAN : InjectStep(c, ok)
  \/ \E i \in Insts : NewPage(i)
  \/ \E i \in Insts, k \in 1..MaxPages : PageClosed(i, k)

SpecInject == InitInject /\ [][NextInject]_vars

\* ------------------------------------------------ injectSession, repeated

\* The step before this one was injectSession(rec) on instance i: nothing has
\* run since it returned.
RepeatsLatest(i, rec) ==
  /\ last.op = "injectSession" /\ last.val = rec
  /\ \E k \in DOMAIN events.emitted :
       events.emitted[k].from = i /\ events.emitted[k].type = "session:loaded"

\* Reinject with a new page opened by every injection.
ReinjectAlwaysNewPage(i, rec) ==
  /\ context[i]
  /\ pageCtr < MaxPages
  /\ cookies' = [cookies EXCEPT ![i] = Merge(@, rec.cookies)]
  /\ pages' = [pages EXCEPT ![i] = Append(@, pageCtr + 1)]
  /\ pageCtr' = pageCtr + 1
  /\ purl' = [purl EXCEPT ![pageCtr + 1] =
                IF rec.url # "" THEN rec.url ELSE "about:blank"]
  /\ lstore' = [lstore EXCEPT ![i][Origin(purl'[pageCtr + 1])] =
                  Merge(@, rec.localStorage)]
  /\ sstore' = [sstore EXCEPT ![pageCtr + 1][Origin(purl'[pageCtr + 1])] =
                  Merge(@, rec.sessionStorage)]
  /\ events' = Heard(Emit(i, "page:created") \o Emit(i, "session:loaded"))
  /\ last' = [op |-> "injectSession", site |-> NoName, sn |-> rec.name,
              res |-> "ok", val |-> rec, again |-> RepeatsLatest(i, rec)]
  /\ UNCHANGED <<instances, iname, status, browser, context, engine, nextInst,
                 calls, nCalls, files, wfVars>>

\* instance.injectSession(rec) from its call to its return, every await
\* resolved and nothing else running in between.
Reinject(i, rec) ==
  /\ context[i]
  /\ injectSession(i, rec)
  /\ last' = [op |-> "injectSession", site |-> NoName, sn |-> rec.name,
              res |-> "ok", val |-> rec, again |-> RepeatsLatest(i, rec)]
  /\ UNCHANGED <<instances, iname, status, browser, context, engine, nextInst,
                 calls, nCalls, files, wfVars>>

NextReinject ==
  \/ \E i \in Insts, rec \in InjRecords : Reinject(i, rec)
  \/ \E i \in Insts : NewPage(i)
  \/ \E i \in Insts, k \in 1..MaxPages : PageClosed(i, k)
  \/ \E i \in Insts : UserLogsIn(i)
  \/ \E i \in Insts, arrived \in BOOLEAN : CallerGoto(i, arrived)

SpecReinject == InitInject /\ [][NextReinject]_vars

\* --------------------------------------------------- goto, await by await

\* A goto call of instance i: the url, the await it is at and its local
\* variable page (0 before newPage has resolved).
GotoCall(i, u, pc, res, page) ==
  [IdleCall EXCEPT !.op = "goto", !.inst = i, !.pc = pc, !.res = res]
  @@ [url |-> u, page |-> page, fresh |-> page = 0]

\* instance.goto(u) up to its first await: with a current page that is
\* page.goto, without one it is context.newPage(), and newPage throws at once
\* without a context.  Calls share nothing but the pages, which open and
\* close on their own below, so one call is followed.
GotoStart(c, i, u) ==
  /\ Issue(c)
  /\ nCalls = 0
  /\ i \in Constructed
  /\ calls' = [calls EXCEPT ![c] =
       IF getCurrentPage(i) # 0
         THEN GotoCall(i, u, "goto", "pending", getCurrentPage(i))
       ELSE IF context[i] THEN GotoCall(i, u, "newPage", "pending", 0)
       ELSE GotoCall(i, u, "done", "not_launched", 0)]
  /\ UNCHANGED <<instances, iname, status, browser, context, pages, engine,
                 nextInst, pageCtr>>
  /\ UNCHANGED restVars
  /\ events' = Silent

\* context.newPage() of a goto call settles: the page is open, the 'page'
\* listener has recorded it, and page.goto is awaited next; or it threw.
GotoNewPage(c, ok) ==
  /\ calls[c].op = "goto" /\ calls[c].pc = "newPage"
  /\ ok => pageCtr < MaxPages
  /\ calls' = [calls EXCEPT
       ![c].pc = IF ok THEN "goto" ELSE "done",
       ![c].res = IF ok THEN "pending" ELSE "navigation_failed",
       ![c].page = IF ok THEN pageCtr + 1 ELSE 0]
  /\ pages' = IF ok THEN [pages EXCEPT ![calls[c].inst] = Append(@, pageCtr + 1)]
              ELSE pages
  /\ pageCtr' = IF ok THEN pageCtr + 1 ELSE pageCtr
  /\ events' = Heard(IF ok THEN Emit(calls[c].inst, "page:created")
                     ELSE NoEvents)
  /\ UNCHANGED <<instances, iname, status, browser, context, engine, nextInst,
                 nCalls>>
  /\ UNCHANGED restVars

\* GotoDone with the event carrying the url the page was at before.
GotoDoneOldUrl(c, arrived) ==
  /\ calls[c].op = "goto" /\ calls[c].pc = "goto"
  /\ arrived => PageOpen(calls[c].inst, calls[c].page)
  /\ calls' = [calls EXCEPT
       ![c].pc = "done",
       ![c].res = IF arrived THEN "ok" ELSE "navigation_failed"]
  /\ purl' = IF arrived THEN [purl EXCEPT ![calls[c].page] = calls[c].url]
             ELSE purl
  /\ events' = Heard(IF arrived
                       THEN EmitNavigated(calls[c].inst, purl[calls[c].page])
                       ELSE NoEvents)
  /\ UNCHANGED <<instances, iname, status, browser, context, pages, engine,
                 nextInst, pageCtr, nCalls>>
  /\ UNCHANGED <<cookies, lstore, sstore, storeVars, wfVars>>

\* page.goto(url) of a goto call settles: the page is at the url and
\* page:navigated is emitted, or it threw (as it does on a page that was
\* closed meanwhile) and nothing is emitted.
GotoDone(c, arrived) ==
  /\ calls[c].op = "goto" /\ calls[c].pc = "goto"
  /\ arrived => PageOpen(calls[c].inst, calls[c].page)
  /\ calls' = [calls EXCEPT
       ![c].pc = "done",
       ![c].res = IF arrived THEN "ok" ELSE "navigation_failed"]
  /\ purl' = IF arrived THEN [purl EXCEPT ![calls[c].page] = calls[c].url]
             ELSE purl
  /\ events' = Heard(IF arrived
                       THEN EmitNavigated(calls[c].inst, calls[c].url)
                       ELSE NoEvents)
  /\ UNCHANGED <<instances, iname, status, browser, context, pages, engine,
                 nextInst, pageCtr, nCalls>>
  /\ UNCHANGED <<cookies, lstore, sstore, storeVars, wfVars>>

NextGoto ==
  \/ \E c \in Calls, i \in Insts, u \in Urls \ {"about:blank"} :
       GotoStart(c, i, u)
  \/ \E c \in Calls, ok \in BOOLEAN : GotoNewPage(c, ok)
  \/ \E c \in Calls, arrived \in BOOLEAN : GotoDone(c, arrived)
  \/ \E i \in Insts : NewPage(i)
  \/ \E i \in Insts, k \in 1..MaxPages : PageClosed(i, k)

SpecGoto == InitInject /\ [][NextGoto]_vars

\* ------------------------------------------- WorkflowManager: type lookup

\* The type tags registered: a site id itself and two of its substrings.
ResolveTags == {<<"a">>, <<"b">>, <<"a", ".", "b">>}

\* Tags registered in every order, sites configured and removed, workflows
\* obtained.
NextResolve ==
  \/ \E t \in ResolveTags : WmRegister(t)
  \/ \E siteId \in Names : WmAddSite(siteId, WmSiteConfig)
  \/ \E siteId \in Names : WmRemoveSite(siteId)
  \/ \E siteId \in Names : WmGetWorkflow("getWorkflow", siteId)

SpecResolve == Init /\ [][NextResolve]_vars

\* ------------------------------------------------ isLoggedIn, called alone

\* WfIsLoggedIn with a navigation to the login page before the check.
WfIsLoggedInNavigates(siteId, r) ==
  /\ wfs[siteId].exists /\ wfs[siteId].page # 0
  /\ purl' = [purl EXCEPT ![wfs[siteId].page] = "base/login"]
  /\ last' = [op |-> "isLoggedIn", site |-> siteId, sn |-> NoName,
              res |-> IF r THEN "true" ELSE "false"]
  /\ UNCHANGED <<mgrVars, cookies, lstore, sstore, files, wfVars>>
  /\ events' = Silent

\* workflow.isLoggedIn() of ExampleWorkflow on the cached workflow: getPage()
\* throws before init, else the page is queried for the two selectors
\* (r is whether one of them is there) and the answer returned.
WfIsLoggedIn(siteId, r) ==
  /\ wfs[siteId].exists
  /\ last' = [op |-> "isLoggedIn", site |-> siteId, sn |-> NoName,
              res |-> IF wfs[siteId].page = 0 THEN "not_initialized"
                      ELSE IF r THEN "true" ELSE "false"]
  /\ UNCHANGED <<mgrVars, webVars, files, wfVars>>
  /\ events' = Silent

\* The session operations of an initialised site, with isLoggedIn() called
\* between them.
NextPoll ==
  \/ \E siteId \in Names, r \in BOOLEAN : WfIsLoggedIn(siteId, r)
  \/ \E siteId \in Names : SsWfSave(siteId)
  \/ \E siteId \in Names : SsWfLoad(siteId)
  \/ \E sn \in SessNames : SsDelete(sn)
  \/ \E i \in Insts : UserLogsIn(i)
  \/ \E siteId \in Names, u \in Urls \ {"about:blank"} : SsGoto(siteId, u)

SpecPoll == InitSession /\ [][NextPoll]_vars

\* ------------------------------------------------ WorkflowManager: listActive

\* listActive counting only the workflows whose init() has set their page.
listActiveInitialized == {n \in Names : wfs[n].exists /\ wfs[n].page # 0}

\* WorkflowManager.listActive(): Array.from(this.instances.keys()), the site
\* ids of the cached workflows.
listActive == {n \in Names : wfs[n].exists}

\* ------------------------------------------------ BrowserManager: lifecycle

\* An observer has attached listeners for browser:created and browser:closed.
InitWatching ==
  MgrInit /\ WebInit /\ StoreInit /\ WfInit /\ events = Watching

\* The calls of the BrowserManager that create and close instances.
NextLifecycle ==
  \/ \E c \in Calls, n \in Names : CreateStart(c, n)
  \/ \E c \in Calls : LaunchBrowserOk(c)
  \/ \E c \in Calls : LaunchBrowserFail(c)
  \/ \E c \in Calls : LaunchContextOk(c)
  \/ \E c \in Calls : LaunchContextFail(c)
  \/ \E c \in Calls, n \in Names : CloseStart(c, n)
  \/ \E c \in Calls : CloseEngineOk(c)
  \/ \E c \in Calls : CloseEngineFail(c)
  \/ \E c \in Calls : CloseAllStart(c)
  \/ \E c \in Calls, i \in Insts : CloseAllEngineOk(c, i)
  \/ \E c \in Calls, i \in Insts : CloseAllEngineFail(c, i)

SpecLifecycle == InitWatching /\ [][NextLifecycle]_vars

\* ------------------------------------------- WorkflowManager: reconfiguring

\* addSite called again for a site, with any SiteConfig, between getWorkflow,
\* close, closeAll and removeSite.
NextReconfig ==
  \/ \E t \in WmTags : WmRegister(t)
  \/ \E siteId \in WmSites, cfg \in SiteConfigs : WmAddSite(siteId, cfg)
  \/ \E siteId \in WmSites : WmRemoveSite(siteId)
  \/ \E siteId \in WmSites : WmGetWorkflow("getWorkflow", siteId)
  \/ \E siteId \in WmSites : WmClose(siteId)
  \/ WmCloseAll

SpecReconfig == Init /\ [][NextReconfig]_vars

\* ------------------------------------------------------------------ properties

\* The step in which call c settles (its result becomes known to its caller).
Settles(c) == calls[c].res = "pending" /\ calls'[c].res # "pending"

\* C1: a create(config) issued while config.name is registered fails with
\* the duplicate-name error and changes nothing of the registry or of any
\* instance: the registration, the status and the open pages stay as they were.
C1_DuplicateCreateFails ==
  [][\A c \in Calls :
       (calls[c].pc = "idle" /\ calls'[c].op = "create" /\ has(calls'[c].arg))
         => /\ calls'[c].res = "duplicate"
            /\ UNCHANGED <<instances, iname, status, browser, context, pages,
                           engine>>]_vars

\* A second create for a registered name was rejected while the registered
\* instance had a page open.
C1_Witness ==
  \E c \in Calls :
    /\ calls[c].res = "duplicate"
    /\ has(calls[c].arg)
    /\ Len(pages[instances[calls[c].arg]]) > 0
    /\ status[instances[calls[c].arg]] = "ready"

\* C2: of two create calls for the same name that overlap (one is issued
\* while the other awaits its launch) at most one succeeds, and at most one
\* of the two engine sessions is launched and kept.
C2_OverlappingCreatesOneWinner ==
  \A c \in Calls : \A d \in calls[c].overl :
    /\ ~(calls[c].res = "ok" /\ calls[d].res = "ok")
    /\ ~(/\ calls[c].pc = "done" /\ calls[d].pc = "done"
         /\ calls[c].res = "ok" /\ calls[d].res = "ok"
         /\ engine[calls[c].inst] = "up" /\ engine[calls[d].inst] = "up")

\* C3: when closeAll() finishes, normally or with the failure of one
\* instance's close, no instance is left registered.
C3_CloseAllLeavesNoneRegistered ==
  [][\A c \in Calls :
       (calls'[c].op = "closeAll" /\ Settles(c))
         => \A n \in Names : instances'[n] = 0]_vars

\* C4: once closeAll() has finished, normally or with a failure, every
\* instance that was registered when it was called, except one whose own
\* close threw, has status closed (no close is skipped or left un-awaited).
C4_CloseAllAwaitsEveryClose ==
  \A c \in Calls :
    (calls[c].op = "closeAll" /\ calls[c].res # "pending")
      => \A i \in calls[c].targets \ calls[c].threw : status[i] = "closed"

\* C5: a create whose engine launch fails (chromium.launch or newContext
\* throws) surfaces the failure to its caller, leaves the instance in status
\* error, and registers nothing: the registry is unchanged by the failing
\* step and the failed instance never appears under any name.
C5_FailedLaunchNotRegistered ==
  /\ [][\A c \in Calls :
          (calls[c].op = "create" /\ calls[c].pc \in {"launch", "context"}
           /\ Settles(c) /\ status'[calls[c].inst] # "ready")
            => /\ calls'[c].res = "launch_failed"
               /\ status'[calls[c].inst] = "error"
               /\ instances' = instances]_vars
  /\ [](\A c \in Calls :
          calls[c].res = "launch_failed"
            => \A n \in Names : instances[n] # calls[c].inst)

\* A create failed in its launch, and a later create for the same name, not
\* overlapping any other, was accepted and succeeded.
C5_Witness ==
  \E c, d \in Calls :
    /\ c < d
    /\ calls[c].op = "create" /\ calls[c].res = "launch_failed"
    /\ status[calls[c].inst] = "error"
    /\ calls[d].op = "create" /\ calls[d].arg = calls[c].arg
    /\ calls[d].overl = {} /\ calls[d].res = "ok"

\* An instance whose engine teardown has begun (some close awaits the
\* engine's close for it) and which is not closed yet.
HalfClosed(i) ==
  /\ \E c \in Calls : i \in calls[c].pend
  /\ status[i] # "closed"

\* C6 as stated: no get(name) returns an instance that is half-closed.
C6_GetNeverSeesHalfClosed ==
  \A n \in Names : has(n) => ~HalfClosed(instances[n])

\* C6 as amended: a close(name) call deletes the entry only in a step after
\* which the instance it looked up is closed (status closed, no handle), and a
\* step that leaves the call awaiting the engine deletes nothing; while it
\* awaits, get(name) can return that instance, half-closed.
C6_RemovalOnlyAfterClose ==
  [][\A c \in Calls :
       (calls'[c].op = "close" /\ calls'[c] # calls[c])
         => /\ (has(calls'[c].arg) /\ instances'[calls'[c].arg] = 0)
                 => /\ status'[calls'[c].inst] = "closed"
                    /\ ~browser'[calls'[c].inst]
                    /\ calls'[c].res = "ok"
            /\ calls'[c].pc = "closing" => instances' = instances]_vars

\* A close(name) went through the engine's teardown and then removed the name.
C6_Witness ==
  \E c \in Calls :
    /\ calls[c].op = "close" /\ calls[c].res = "ok"
    /\ engine[calls[c].inst] = "down"
    /\ ~has(calls[c].arg)

\* C10: workflow.loadSession() returns true exactly when a session is
\* stored under the workflow's configured session name (and, the instance being
\* registered and launched, was injected); in particular it returns true after
\* a successful saveSession() with no delete in between, whatever characters
\* the session name contains.
C10_LoadSessionTrueIffStored ==
  \A siteId \in Names :
    (last.op = "wfLoad" /\ last.site = siteId)
      => (last.res = "true"
            <=> /\ wfs[siteId].sessionName # NoName
                /\ SessionExists(wfs[siteId].sessionName))

\* C7: login() on a workflow whose isLoggedIn() reads false at every check
\* terminates: once its poll loop has started it returns success = false with
\* the timeout error, no sooner than MaxWaitMs after the loop started; it does
\* not poll or sleep forever.
C7_LoginTimesOut ==
  ([]~login.sawTrue)
    => [](login.pc = "loop"
            => <>(/\ login.pc = "done"
                  /\ login.out = "returned"
                  /\ ~login.success
                  /\ login.error = "timeout"
                  /\ now - login.startTime >= MaxWaitMs))

C7_Witness ==
  /\ login.pc = "done" /\ login.op = "login"
  /\ login.out = "returned" /\ ~login.success /\ login.error = "timeout"
  /\ ~login.sawTrue /\ ~login.already
  /\ now - login.startTime >= MaxWaitMs

\* C8 as stated: WorkflowManager.login(siteId) that ends on a login timeout or
\* on a missing configuration ends by returning a WorkflowResult with
\* success = false, never by raising.
C8_ExpectedFailuresAreReturned ==
  (/\ login.op = "login" /\ login.pc = "done"
   /\ login.error \in {"timeout", "no_config"})
    => (login.out = "returned" /\ ~login.success)

\* C8, amended: WorkflowManager.login(siteId) returns a WorkflowResult with
\* success = false and the timeout error when the poll loop runs out of time;
\* for a siteId with no cached workflow and no configuration it raises the
\* missing-configuration error instead, at once, and neither caches a workflow
\* nor touches the registry of instances.
C8_TimeoutReturnedMissingConfigRaised ==
  [][/\ (login.pc = "loop" /\ ~InTime /\ login' # login)
          => (/\ login'.pc = "done" /\ login'.out = "returned"
              /\ ~login'.success /\ login'.error = "timeout")
     /\ \A siteId \in Names :
          (/\ Quiet /\ login' # login
           /\ login'.op = "login" /\ login'.site = siteId
           /\ ~wfs[siteId].exists /\ ~configs[siteId].exists)
            => (/\ login'.pc = "done" /\ login'.out = "raised"
                /\ login'.error = "no_config"
                /\ UNCHANGED <<wfs, mgrVars, webVars, files>>)]_vars

C8_Witness ==
  /\ login.op = "login" /\ login.pc = "done"
  /\ login.out = "raised" /\ login.error = "no_config"
  /\ \A n \in Names : ~wfs[n].exists /\ instances[n] = 0

Issued(c, op) == calls[c].pc = "idle" /\ calls'[c].op = op

\* C18 as stated: a launch() that failed with "already launched" has set the
\* instance's status to error.
C18_AlreadyLaunchedSetsError ==
  \A c \in Calls :
    (calls[c].op = "launch" /\ calls[c].res = "already_launched")
      => status[calls[c].inst] = "error"

\* C18, amended: launch() on an instance whose browser handle is set fails at
\* once with the "already launched" error, which reaches the caller, and
\* leaves the instance as it was: its status is not changed (a ready instance
\* stays ready) and no engine launch is started.
C18_AlreadyLaunchedFailsStatusKept ==
  [][\A c \in Calls :
       (Issued(c, "launch") /\ browser[calls'[c].inst])
         => /\ calls'[c].pc = "done"
            /\ calls'[c].res = "already_launched"
            /\ UNCHANGED <<status, browser, context, pages, engine>>]_vars

C18_Witness ==
  \E c \in Calls :
    /\ calls[c].op = "launch" /\ calls[c].res = "already_launched"
    /\ status[calls[c].inst] = "ready"
    /\ browser[calls[c].inst]

\* C19: whenever close() returns normally the instance's status is closed
\* and it has no open page, whatever its status was before, the error status
\* after a failed launch included.
C19_CloseAlwaysEndsClosed ==
  [][\A c \in Calls :
       (/\ calls[c].pc # "done" /\ calls'[c].pc = "done"
        /\ calls'[c].op = "iclose" /\ calls'[c].res = "ok")
         => /\ status'[calls'[c].inst] = "closed"
            /\ pages'[calls'[c].inst] = <<>>]_vars

\* C20: close() on an instance without a browser handle (already closed, or
\* never launched) returns normally at once, starts no engine call and changes
\* nothing; when the close() of a launched instance returns the status is
\* closed, no page is open and the handles are null; newPage() on an instance
\* without a context fails with "not launched" and opens nothing.
C20_CloseIdempotent ==
  [][\A c \in Calls :
       /\ (Issued(c, "iclose") /\ ~browser[calls'[c].inst])
            => /\ calls'[c].pc = "done" /\ calls'[c].res = "ok"
               /\ calls'[c].pend = {}
               /\ UNCHANGED <<instances, iname, status, browser, context,
                              pages, engine, pageCtr, restVars>>
       /\ (/\ calls[c].op = "iclose" /\ calls[c].pc = "closing"
           /\ calls'[c].pc = "done" /\ calls'[c].res = "ok")
            => /\ status'[calls[c].inst] = "closed"
               /\ pages'[calls[c].inst] = <<>>
               /\ ~browser'[calls[c].inst] /\ ~context'[calls[c].inst]
       /\ (Issued(c, "newPage") /\ ~context[calls'[c].inst])
            => /\ calls'[c].res = "not_launched"
               /\ UNCHANGED <<pages, pageCtr>>]_vars

C20_Witness ==
  \E c, d \in Calls :
    /\ c < d
    /\ calls[c].op = "iclose" /\ calls[c].res = "ok" /\ calls[c].pc = "done"
    /\ calls[d].op = "iclose" /\ calls[d].res = "ok" /\ calls[d].pc = "done"
    /\ calls[c].inst = calls[d].inst
    /\ engine[calls[c].inst] = "down"
    /\ status[calls[c].inst] = "closed"

\* C15: SessionManager.load(name) never throws; it returns null when no
\* file is stored for the name and when the stored content cannot be parsed,
\* the stored record otherwise; it leaves the store unchanged.
C15_LoadNeverThrows ==
  [][(last' # last /\ last'.op = "smLoad")
       => /\ last'.res \in {"null", "record"}
          /\ (~SessionExists(last'.sn) \/ SessionLoad(last'.sn) = Corrupt)
               => (last'.res = "null" /\ last'.val = Null)
          /\ (SessionExists(last'.sn) /\ SessionLoad(last'.sn) # Corrupt)
               => (last'.res = "record" /\ last'.val = SessionLoad(last'.sn))
          /\ files' = files]_vars

C15_Witness ==
  /\ last.op = "smLoad" /\ last.res = "null"
  /\ SessionExists(last.sn)
  /\ SessionLoad(last.sn) = Corrupt

\* C16: session names that sanitise to the same string share one stored
\* record: a load under either name right after a save under one of them
\* returns the record just written (carrying the name it was saved under),
\* and right after a delete under one of them returns null; the store never
\* holds more than one file for such names.
C16_SanitizedNamesAlias ==
  /\ [][(/\ last' # last /\ last'.op = "smLoad"
         /\ Sanitize(last.sn) = Sanitize(last'.sn))
          => /\ last.op = "smSave" => last'.val = last.val
             /\ last.op = "delete" => last'.val = Null]_vars
  /\ [](\A f, g \in DOMAIN files :
          (\E x, y \in StoreNames :
             /\ Sanitize(x) = Sanitize(y)
             /\ f \in {getSessionPath(x), getSessionPathRaw(x)}
             /\ g \in {getSessionPath(y), getSessionPathRaw(y)}) => f = g)

C16_Witness ==
  /\ last.op = "smLoad" /\ last.res = "record"
  /\ last.sn = <<"a", "_", "b">>
  /\ last.val.name = <<"a", "/", "b">>

\* No save or delete is running.
RaceQuiet == \A c \in Calls : calls[c].pc \in {"idle", "done"}

CwsSettles ==
  /\ last.op = "createWithSession" /\ last.res = "pending"
  /\ last'.res # "pending"

\* C11: createWithSession(config, sessionName) whose create succeeded, when
\* no session can be loaded under sessionName (none stored, or unreadable),
\* raises nothing: the new instance is registered with status ready and is
\* left as create made it, with no cookie, no page and no navigation.
C11_MissingSessionIsSilent ==
  [][(CwsSettles /\ calls[nCalls].res = "ok" /\ load(last.sn) = Null)
       => /\ last'.res = "ok"
          /\ instances'[last.site] = calls[nCalls].inst
          /\ status'[calls[nCalls].inst] = "ready"
          /\ cookies'[calls[nCalls].inst] = NoMap
          /\ pages'[calls[nCalls].inst] = <<>>
          /\ UNCHANGED <<cookies, pages, pageCtr, purl, lstore, sstore,
                         files>>]_vars

C11_Witness ==
  /\ last.op = "createWithSession" /\ last.res = "ok"
  /\ ~SessionExists(last.sn)
  /\ has(last.site)
  /\ status[instances[last.site]] = "ready"
  /\ pages[instances[last.site]] = <<>>
  /\ cookies[instances[last.site]] = NoMap

\* What extractSession would read from instance i after this step.
ExtractAfter(i) ==
  LET p == IF pages'[i] = <<>> THEN 0 ELSE pages'[i][Len(pages'[i])] IN
    [cookies |-> cookies'[i],
     localStorage |-> IF p = 0 THEN NoMap ELSE lstore'[i][Origin(purl'[p])],
     sessionStorage |-> IF p = 0 THEN NoMap ELSE sstore'[p][Origin(purl'[p])],
     url |-> IF p = 0 THEN "" ELSE purl'[p]]

\* The state of instance i after this step equals the record in the four
\* parts a session carries.
SameStateAfter(i, rec) ==
  /\ ExtractAfter(i).cookies = rec.cookies
  /\ ExtractAfter(i).localStorage = rec.localStorage
  /\ ExtractAfter(i).sessionStorage = rec.sessionStorage
  /\ ExtractAfter(i).url = rec.url

C14_UnregisteredNameFails ==
  [][/\ \A c \in Calls :
          (Issued(c, "close") /\ ~has(calls'[c].arg))
            => /\ calls'[c].pc = "done" /\ calls'[c].res = "not_found"
               /\ UNCHANGED <<instances, iname, status, browser, context,
                              pages, engine, webVars, files>>
     /\ (last' # last /\ last'.op \in {"save", "load"} /\ ~has(last'.site))
          => /\ last'.res = "not_found"
             /\ UNCHANGED <<mgrVars, webVars, files>>]_vars

C14_Witness ==
  /\ last.op = "save" /\ last.res = "not_found"
  /\ ~has(last.site)
  /\ \E c \in Calls : calls[c].op = "close" /\ calls[c].res = "not_found"

\* A launch() of instance i is between its start and its end.
LaunchInFlight(i) ==
  \E c \in Calls : /\ calls[c].op = "launch" /\ calls[c].inst = i
                   /\ calls[c].pc \in {"launch", "context"}

\* A close() of instance i that found the handle set is awaiting the engine.
CloseInFlight(i) ==
  \E c \in Calls : /\ calls[c].op = "iclose" /\ calls[c].inst = i
                   /\ calls[c].pc = "closing"

\* C21 as stated: an instance closed through close() never returns to
\* launching or ready, and from error the only status it moves to is closed.
C21_StatusOneDirectional ==
  [][\A i \in Insts :
       /\ (status[i] = "closed" /\ engine[i] = "down")
            => status'[i] \notin {"launching", "ready"}
       /\ status[i] = "error" => status'[i] \in {"error", "closed"}]_vars

\* C21, amended: the status changes only in these ways: to launching by a
\* launch() that found the browser handle null, whatever the status was
\* (closed by close(), or error after a failed engine launch, included); to
\* ready or error by the completion of a launch in flight; to closed by the
\* completion of a close() that found the handle set.
C21_StatusChangesByHandle ==
  [][\A i \in Insts :
       status'[i] # status[i] =>
         \/ /\ status'[i] = "launching"
            /\ ~browser[i]
            /\ calls'[nCalls'].op = "launch" /\ nCalls' = nCalls + 1
         \/ /\ status'[i] \in {"ready", "error"}
            /\ LaunchInFlight(i)
         \/ /\ status'[i] = "closed"
            /\ CloseInFlight(i)]_vars

C21_Witness ==
  /\ nCalls = 3
  /\ calls[1].op = "launch" /\ calls[1].res = "ok"
  /\ calls[2].op = "iclose" /\ calls[2].res = "ok" /\ calls[2].inst = 1
  /\ calls[3].op = "launch" /\ calls[3].res = "ok" /\ calls[3].inst = 1
  /\ calls[1].inst = 1
  /\ status[1] = "ready"

C23_OneWorkflowPerSite ==
  [][\A s \in Names :
       /\ wfs'[s].gen # wfs[s].gen
            => /\ ~wfs[s].exists /\ wfs'[s].exists
               /\ wfs'[s].gen = wfs[s].gen + 1
       /\ (last' # last /\ last'.op = "getWorkflow" /\ last'.site = s
             /\ last'.res = "ok")
            => /\ wfs'[s].exists /\ last'.wf = wfs'[s].gen
               /\ wfs[s].exists => wfs' = wfs
       /\ (login' # login /\ login'.op = "init" /\ login'.site = s
             /\ login.pc \in {"idle", "done"} /\ login'.out # "raised")
            => /\ wfs'[s].exists
               /\ wfs[s].exists => wfs'[s].gen = wfs[s].gen
       /\ (wfs[s].exists /\ ~wfs'[s].exists)
            => login'.op \in {"close", "removeSite", "closeAll"}]_vars

C23_Witness ==
  /\ last.op = "getWorkflow" /\ last.res = "ok"
  /\ wfs[last.site].exists
  /\ wfs[last.site].gen = 2 /\ last.wf = 2
  /\ wfs[last.site].browser # 0
  /\ login.op = "init" /\ login.site = last.site /\ login.out = "returned"

\* No registered type tag equals the site id or is a substring of it.
NoTagMatches(s) ==
  \A k \in DOMAIN registry :
    registry[k] # s /\ ~Includes(s, registry[k])

\* C24: getWorkflow(siteId) with nothing cached fails with "no
\* configuration" when no SiteConfig is registered for the site id, whatever
\* is registered as types, and with "no workflow registered" when a config
\* exists and no registered tag equals the site id or is a substring of it; a
\* failing getWorkflow, alone or as the start of init, caches no workflow and
\* creates no browser instance.
C24_GetWorkflowFailures ==
  [][\A s \in Names :
       /\ (last' # last /\ last'.op = "getWorkflow" /\ last'.site = s
             /\ ~wfs[s].exists)
            => /\ ~configs[s].exists => last'.res = "no_config"
               /\ (configs[s].exists /\ NoTagMatches(s))
                    => last'.res = "no_workflow"
               /\ (configs[s].exists /\ ~NoTagMatches(s))
                    => last'.res = "ok"
               /\ last'.res # "ok" => UNCHANGED <<wfs, mgrVars>>
       /\ (login' # login /\ login.pc \in {"idle", "done"}
             /\ login'.op = "init" /\ login'.site = s /\ ~wfs[s].exists
             /\ (~configs[s].exists \/ NoTagMatches(s)))
            => /\ login'.pc = "done" /\ login'.out = "raised"
               /\ login'.error = IF ~configs[s].exists THEN "no_config"
                                 ELSE "no_workflow"
               /\ UNCHANGED <<wfs, mgrVars>>]_vars

C24_Witness ==
  /\ last.op = "getWorkflow" /\ last.res = "no_workflow"
  /\ configs[last.site].exists
  /\ registry # <<>>
  /\ ~wfs[last.site].exists
  /\ Registered = {}
  /\ login.op = "init" /\ login.out = "raised" /\ login.error = "no_config"

\* A close(siteId) or closeAll() of the WorkflowManager ends in this step.
WmEnds(op) == login' # login /\ login'.op = op /\ login'.pc = "done"

InitStarts(s) ==
  /\ login.pc \in {"idle", "done"}
  /\ login' # login /\ login'.op = "init" /\ login'.site = s
  /\ login'.pc # "done"

\* C26: workflow.init() creates the instance named after the site id only
\* when none is registered under it, and takes the registered one otherwise,
\* launching nothing; it attempts the session load next, which does not fail
\* when the configured session is absent and navigates nowhere, and only then
\* navigates to the base URL.
C26_InitReusesRegisteredInstance ==
  [][\A s \in Names :
       /\ (InitStarts(s) /\ has(s))
            => /\ login'.pc = "loadSession"
               /\ wfs'[s].browser = instances[s]
               /\ UNCHANGED mgrVars
       /\ (InitStarts(s) /\ ~has(s))
            => /\ login'.pc = "create"
               /\ nCalls' = nCalls + 1
               /\ calls'[nCalls'].op = "create" /\ calls'[nCalls'].arg = s
       /\ (login.op = "init" /\ login.site = s /\ login.pc = "loadSession"
             /\ login' # login /\ ~SessionExists(wfs[s].sessionName))
            => /\ login'.pc = "goto"
               /\ UNCHANGED <<mgrVars, webVars, files>>
       /\ (login.op = "init" /\ login.site = s /\ login.pc # "goto"
             /\ login'.pc = "goto")
            => login.pc = "loadSession"
       /\ (login.op = "init" /\ login.site = s /\ login.pc = "goto"
             /\ login' # login)
            => /\ login'.pc = "done"
               /\ login'.out = "returned"
                    => purl'[wfs'[s].page] = BaseUrl]_vars

C26_Witness ==
  /\ login.op = "init" /\ login.pc = "done" /\ login.out = "returned"
  /\ login.call = 0
  /\ has(login.site)
  /\ wfs[login.site].browser = instances[login.site]
  /\ Cardinality({i \in Insts : engine[i] = "up"}) = 1
  /\ nCalls = 1
  /\ purl[wfs[login.site].page] = BaseUrl

\* C27: when the first isLoggedIn() of login(), made after navigateToLogin,
\* reads true, login() returns success = true in that same run: the polling
\* loop is not entered, nothing sleeps, no time passes and no session is
\* saved.
C27_AlreadyLoggedInReturnsAtOnce ==
  /\ [][(login.pc = "login" /\ login'.already)
          => /\ login'.pc = "done" /\ login'.out = "returned"
             /\ login'.success /\ login'.error = "none"
             /\ login'.polls = 0 /\ login'.saves = 0
             /\ now' = now /\ files' = files
             /\ UrlIncludesBase(purl'[wfs[login.site].page])]_vars
  /\ [](login.already => (login.pc = "done" /\ login.polls = 0 /\ now = 0))

C27_Witness ==
  /\ login.op = "login" /\ login.pc = "done" /\ login.already
  /\ login.success /\ login.polls = 0
  /\ now = 0

\* C28: the login poll is bounded: a poll starts only while less than
\* 300 000 ms have passed since polling began, a poll that reads false is
\* followed by a suspension of at least 2 000 ms before the loop condition is
\* read again, and one login() makes at most 150 polls after its first check.
C28_PollIsBounded ==
  /\ [](login.polls <= MaxPolls)
  /\ [][login'.polls # login.polls
          => /\ login'.polls = login.polls + 1
             /\ login.pc = "loop"
             /\ now - login.startTime < 300000
             /\ now' = now
             /\ login'.pc \in {"sleep", "done"}]_vars
  /\ [][login.pc = "sleep" /\ login'.pc # "sleep"
          => /\ login'.pc = "loop"
             /\ now' >= now + 2000
             /\ login'.polls = login.polls]_vars

C28_Witness ==
  /\ login.pc = "done" /\ login.op = "login"
  /\ login.error = "timeout"
  /\ login.polls = 150

\* Instance i was constructed by a BrowserManager.create call.
CreatedByManager(i) ==
  \E c \in Calls : calls[c].op = "create" /\ calls[c].inst = i

\* C29: every page:created, page:closed and page:navigated event emitted by
\* an instance that a BrowserManager.create call constructed is re-emitted by
\* the manager, at once and tagged with that instance's name, whatever the
\* state of the create call (launch in progress, finished, or the instance
\* replaced in the registry since).
C29_PageEventsForwarded ==
  [][\A k \in DOMAIN events'.emitted :
       LET e == events'.emitted[k] IN
         (e.from # 0 /\ e.type \in {"page:created", "page:closed",
                                    "page:navigated"}
          /\ CreatedByManager(e.from))
           => /\ k + 1 \in DOMAIN events'.emitted
              /\ events'.emitted[k + 1] =
                   [e EXCEPT !.from = 0, !.browser = iname[e.from]]
    ]_vars

\* C29: a navigation of an instance that create constructed and that a later
\* create for the same name replaced in the registry has just been relayed.
C29_Witness ==
  \E k \in DOMAIN events.emitted :
    /\ events.emitted[k].from # 0
    /\ events.emitted[k].type = "page:navigated"
    /\ CreatedByManager(events.emitted[k].from)
    /\ events.emitted[k].from \notin Registered
    /\ k + 1 \in DOMAIN events.emitted
    /\ events.emitted[k + 1].from = 0

\* The order in which the specification lists the steps of injectSession.
InjOrder ==
  [cookies |-> 1, page |-> 2, goto |-> 3, local |-> 4, session |-> 5,
   reload |-> 6, done |-> 7]

\* Call c is an injectSession call that has not returned or thrown.
Injecting(c) == calls[c].op = "injectSession" /\ calls[c].pc # "done"

\* C30: an injectSession call takes its steps in the order cookies, page,
\* navigation, localStorage, sessionStorage, reload; a page is created only
\* when none is open; storage is written only by the two storage steps and,
\* for a record with a url, only after the navigation has resolved; a step
\* that throws ends the call with nothing changed and nothing emitted; and
\* session:loaded is emitted exactly in the step in which the reload has
\* resolved, after cookies, navigation and storage were done if and only if
\* the record has them.
C30_InjectOrder ==
  [][\A c \in Calls :
       /\ calls'[c].op = "injectSession" /\ calls[c].op = "injectSession"
          /\ calls'[c] # calls[c]
            => InjOrder[calls'[c].pc] > InjOrder[calls[c].pc]
       /\ calls'[c].op = "injectSession" /\ calls'[c].pc = "page"
          /\ calls'[c] # calls[c]
            => getCurrentPage(calls'[c].inst) = 0
       /\ (lstore' # lstore \/ sstore' # sstore) /\ Injecting(c)
            => /\ calls[c].pc \in {"local", "session"}
               /\ calls[c].rec.url # "" =>
                    /\ "goto" \in calls[c].did
                    /\ purl[calls[c].page] = calls[c].rec.url
               /\ cookies' = cookies /\ purl' = purl /\ pages' = pages
       /\ Injecting(c) /\ calls'[c].res = "failed"
            => /\ calls'[c].pc = "done"
               /\ UNCHANGED <<cookies, pages, purl, lstore, sstore>>
               /\ events'.emitted = NoEvents
       /\ Injecting(c)
            => ((\E k \in DOMAIN events'.emitted :
                   events'.emitted[k].type = "session:loaded")
                <=> calls'[c].res = "ok")
       /\ Injecting(c) /\ calls'[c].res = "ok"
            => LET rec == calls[c].rec
                   did == calls'[c].did
               IN /\ calls[c].pc = "reload"
                  /\ "cookies" \in did <=> DOMAIN rec.cookies # {}
                  /\ "goto" \in did <=> rec.url # ""
                  /\ "local" \in did <=> DOMAIN rec.localStorage # {}
                  /\ "session" \in did <=> DOMAIN rec.sessionStorage # {}
                  /\ "reload" \in did
    ]_vars

\* C30: an injectSession call has returned after all six steps: the record
\* had cookies, a url and both storages and no page was open.
C30_Witness ==
  \E c \in Calls :
    /\ calls[c].op = "injectSession"
    /\ calls[c].res = "ok"
    /\ calls[c].did = {"cookies", "page", "goto", "local", "session", "reload"}
    /\ \E k \in DOMAIN events.emitted : events.emitted[k].type = "session:loaded"

\* C31: an injectSession(rec) that directly follows an injectSession(rec) on
\* the same instance changes nothing that the first one left: the cookies,
\* the localStorage and sessionStorage maps, the current page and its URL and
\* the number of open pages are the same after two injections as after one.
C31_InjectionIdempotent ==
  [][\A i \in Insts :
       (/\ RepeatsLatest(i, last'.val)
        /\ last'.op = "injectSession" /\ last'.again
        /\ \E k \in DOMAIN events'.emitted :
             /\ events'.emitted[k].from = i
             /\ events'.emitted[k].type = "session:loaded")
         => /\ cookies'[i] = cookies[i]
            /\ lstore'[i] = lstore[i]
            /\ sstore' = sstore
            /\ Len(pages'[i]) = Len(pages[i])
            /\ getCurrentPage(i)' = getCurrentPage(i)
            /\ purl' = purl
    ]_vars

\* C31: a record with cookies, a url and both storages has been injected twice
\* in a row into an instance that had no page before the first injection.
C31_Witness ==
  /\ last.op = "injectSession" /\ last.again
  /\ last.val.url # "" /\ DOMAIN last.val.cookies # {}
  /\ DOMAIN last.val.localStorage # {} /\ DOMAIN last.val.sessionStorage # {}
  /\ \E i \in Insts : Len(pages[i]) = 1 /\ pageCtr = 1 /\ cookies[i] = last.val.cookies

\* The page:navigated events instance i emitted in the step, by position.
NavigatedBy(i, es) ==
  {k \in DOMAIN es : es[k].from = i /\ es[k].type = "page:navigated"}

OpenPages(i) == {pages[i][k] : k \in DOMAIN pages[i]}

C34_ExactMatchFirst ==
  [][\A s \in Names :
       (wfs'[s].exists /\ wfs'[s].gen # wfs[s].gen)
         => IF \E k \in DOMAIN registry : registry[k] = s
              THEN wfs'[s].cls = s
              ELSE \E k \in DOMAIN registry :
                     /\ registry[k] = wfs'[s].cls
                     /\ Includes(s, registry[k])
                     /\ \A j \in 1..(k - 1) : ~Includes(s, registry[j])
    ]_vars

\* C34: a workflow of the exactly matching type is cached although a
\* substring of the site id was registered before that type.
C34_Witness ==
  \E s \in Names :
    /\ wfs[s].exists /\ wfs[s].cls = s
    /\ \E k, j \in DOMAIN registry :
         j < k /\ registry[k] = s /\ registry[j] # s /\ Includes(s, registry[j])

\* C35: a call of isLoggedIn() leaves everything but its answer as it was: no
\* page is navigated, opened or closed, no field of an instance, no registry
\* entry, no configuration, no cached workflow and no stored session
\* changes, and no event is emitted.
C35_IsLoggedInChangesNothing ==
  [][(last'.op = "isLoggedIn" /\ last' # last)
       => /\ UNCHANGED <<mgrVars, webVars, files, wfVars>>
          /\ events'.emitted = NoEvents
    ]_vars

\* C35: isLoggedIn() has answered for a site whose user is logged in and whose
\* session is stored.
C35_Witness ==
  /\ last.op = "isLoggedIn" /\ last.res = "true"
  /\ files # <<>>
  /\ \E i \in Insts : DOMAIN cookies[i] # {}

C37_NoOrphanEngine ==
  \A i \in Insts :
    engine[i] = "up" =>
      \/ i \in Registered
      \/ \E c \in Calls : /\ calls[c].op = "create" /\ calls[c].inst = i
                          /\ calls[c].pc \in {"launch", "context"}

\* C38: for each name the manager's browser:created and browser:closed
\* events alternate, starting with browser:created, and browser:closed is
\* emitted only for an instance that the operation emitting it removes from
\* the registry: when that operation has finished, the name has no entry.
C38_CreatedClosedAlternate ==
  [][\A k \in DOMAIN events'.emitted :
       LET e == events'.emitted[k] IN
         /\ e.type = "browser:created" =>
              events.life[e.browser] \in {"none", "browser:closed"}
         /\ e.type = "browser:closed" =>
              /\ events.life[e.browser] = "browser:created"
              /\ \A c \in Calls :
                   calls'[c] # calls[c] /\ calls'[c].pc = "done" =>
                     instances'[e.browser] = 0]_vars

\* C39: in every reachable state of an instance, also when close() overlaps
\* an in-flight launch(), the status is ready if and only if both the engine
\* browser handle and the context handle are present.
C39_ReadyIffBothHandles ==
  \A i \in Constructed : status[i] = "ready" <=> browser[i] /\ context[i]

\* C40: a cached workflow keeps the SiteConfig it was constructed with. An
\* addSite for an id that has a cached workflow replaces the stored
\* configuration and leaves the cache as it is; as long as the workflow is
\* cached it is the same object with the same configuration, and getWorkflow
\* returns it; only close, removeSite and closeAll take it out of the cache.
C40_CachedWorkflowKeepsConfig ==
  [][\A n \in Names :
       wfs[n].exists =>
         /\ (configs'[n] # configs[n] /\ configs'[n].exists) => wfs' = wfs
         /\ wfs'[n].exists => wfs'[n] = wfs[n]
         /\ ~wfs'[n].exists =>
              login'.op \in {"close", "removeSite", "closeAll"}
         /\ (last' # last /\ last'.op = "getWorkflow" /\ last'.site = n) =>
              last'.res = "ok" /\ last'.wf = wfs[n].gen]_vars

\* C40 witness: addSite has replaced the stored configuration of a site whose
\* workflow is cached: the workflow's session name is not the one a workflow
\* built from the stored configuration would have.
C40_Witness ==
  \E n \in Names :
    /\ wfs[n].exists /\ configs[n].exists
    /\ wfs[n].sessionName # NewWorkflow(n).sessionName

====
